---- MODULE Spec2Model ----
(***************************************************************************)
(* A model of the ReductStore ROS demo seeders:                            *)
(*   seeds/mcap.py               looped replay of a clip into MCAP episodes *)
(*   seeds/robot.py              looped replay of a clip into records       *)
(*   notebooks/seed_reductstore  direct replay of a bag into 10 s episodes  *)
(*                                                                         *)
(* Time is counted in nanoseconds as in the source.  NsPerUs is the        *)
(* source's 1_000.  A second is NsPerSec model nanoseconds: the source's    *)
(* 1e9 does not fit the checker's integers, so the second is scaled down;  *)
(* every duration the programs configure in seconds is multiplied by       *)
(* NsPerSec exactly where the source multiplies by 1e9.                    *)
(*                                                                         *)
(* Python floats are modelled as exact rationals: a rate in Hz is a pair   *)
(* numerator / HzDen, and a quotient is floored once, where the source     *)
(* applies int().                                                          *)
(***************************************************************************)
EXTENDS Integers, Sequences, FiniteSets, TLC

VARIABLES
    pc,        \* position of the running program
    exc,       \* the exception that ended the run, "" while none was raised
    last_us,   \* TsAllocator._last_us: entry name -> last microsecond handed out
    allocs,    \* log of alloc_us calls: [entry, ts_ns, ret]
    writes,    \* log of bucket.write calls: [entry, ts]
    rate,      \* locals of the throttle-ratio computation and the decimation loop
    direct,    \* locals of seed_reductstore.main
    mcap,      \* locals of mcap.main
    robot,     \* locals of robot.main
    filt,      \* arguments and results of the topic filters of mcap.py
    labels,    \* the label set of one mcap.py episode record
    resets,    \* the clear_bucket calls of the run: what was removed, and when
    charm      \* the ReductstoreCharm unit: configuration, stored state, effects

vars == <<pc, exc, last_us, allocs, writes, rate, direct, mcap, robot, filt, labels, resets,
          charm>>

----------------------------------------------------------------------------
(* Bounds of the model *)

MaxCalls == 4          \* alloc_us calls of one run of the allocator driver
MaxTick == 3           \* event times are multiples of TimeStepNs up to MaxTick
TimeStepNs == 500      \* spacing of the event times: two per microsecond
NsPerSec == 2000       \* model nanoseconds in one second
HzDen == 100           \* rates are counted in 1/HzDen Hz

(* Program constants *)

NsPerUs == 1000

----------------------------------------------------------------------------
(* Python helpers *)

\* d.get(k, default) / defaultdict lookup
Get(d, k, default) == IF k \in DOMAIN d THEN d[k] ELSE default

\* d[k] = v
Put(d, k, v) == [x \in (DOMAIN d) \cup {k} |-> IF x = k THEN v ELSE d[x]]

\* max(a, b)
Max(a, b) == IF a >= b THEN a ELSE b

\* s.endswith(suffix), on token sequences
EndsWith(s, suffix) ==
    /\ Len(suffix) <= Len(s)
    /\ SubSeq(s, Len(s) - Len(suffix) + 1, Len(s)) = suffix

\* sub in s, on token sequences
Contains(s, sub) ==
    \E i \in 1..(Len(s) - Len(sub) + 1) : SubSeq(s, i, i + Len(sub) - 1) = sub

\* the subsequence of s whose elements satisfy the entry test
SelectEntry(s, e) == SelectSeq(s, LAMBDA r : r.entry = e)

\* a bucket.write call with the answer of the sink: "ok", "409" (a record
\* with this timestamp exists in the entry) or "error" (any other failure)
Answered(entry, ts, resp) == [entry |-> entry, ts |-> ts, resp |-> resp]

\* variant: the bucket is not cleared
clear_bucket_skipped(rs, removed, log) == rs

(* clear_bucket, or the clearing loop of seed_reductstore.main: the entry list
   is fetched once and remove_entry is called for the entries removed; log is
   the list of the writes issued so far. *)
clear_bucket(rs, removed, log) ==
    Append(rs, [removed |-> removed, writes_before |-> Len(log)])

----------------------------------------------------------------------------
(* TsAllocator (seeds/mcap.py and seeds/robot.py hold the same class) *)

\* mutants of the candidate computation
alloc_cand_strict(last, ts_ns) ==
    LET cand == ts_ns \div NsPerUs
    IN  IF cand < last THEN last + 1 ELSE cand

alloc_cand_skip(last, ts_ns) ==
    LET cand == ts_ns \div NsPerUs
    IN  IF cand <= last THEN last + 2 ELSE cand

alloc_cand_raw(last, ts_ns) == ts_ns \div NsPerUs

\* cand = ts_ns // 1_000; if cand <= last: cand = last + 1
alloc_cand(last, ts_ns) ==
    LET cand == ts_ns \div NsPerUs
    IN  IF cand <= last THEN last + 1 ELSE cand

\* the value alloc_us(entry, ts_ns) returns in allocator state lu
alloc_us(lu, entry, ts_ns) == alloc_cand(Get(lu, entry, -1), ts_ns)

\* variant: one last unit shared by all entries
alloc_store_all(lu, entry, cand) == [x \in (DOMAIN lu) \cup {entry} |-> cand]

\* self._last_us[entry] = cand
alloc_store(lu, entry, cand) == Put(lu, entry, cand)

\* one call of alloc_us: the allocator state and the call log after it
AllocStep(entry, ts_ns) ==
    LET ret == alloc_us(last_us, entry, ts_ns)
    IN  /\ last_us' = alloc_store(last_us, entry, ret)
        /\ allocs' = Append(allocs, [entry |-> entry, ts_ns |-> ts_ns, ret |-> ret])

----------------------------------------------------------------------------
(* Idle values of the program locals *)

RateIdle == [variant |-> "none", count |-> 0, clip_dur_ns |-> 0, target |-> 0,
             should_throttle |-> FALSE, ratio |-> 0, seen |-> 0, counter |-> 0, kept |-> {}]
DirectIdle == [on |-> FALSE]
McapIdle == [on |-> FALSE]
RobotIdle == [on |-> FALSE]
FilterIdle == [on |-> FALSE]

LabelsIdle == [on |-> FALSE]
CharmIdle == [on |-> FALSE]

----------------------------------------------------------------------------
(* The allocator driven by arbitrary calls *)

AllocEntries == {"episodes", "image"}
TsNsValues == {k * TimeStepNs : k \in -1..MaxTick}

InitAlloc ==
    /\ pc = "alloc"
    /\ exc = ""
    /\ last_us = << >>
    /\ allocs = << >>
    /\ writes = << >>
    /\ rate = RateIdle
    /\ direct = DirectIdle
    /\ mcap = McapIdle
    /\ robot = RobotIdle
    /\ filt = FilterIdle
    /\ labels = LabelsIdle
    /\ resets = << >>
    /\ charm = CharmIdle

AllocCall ==
    /\ pc = "alloc"
    /\ Len(allocs) < MaxCalls
    /\ \E entry \in AllocEntries, ts_ns \in TsNsValues : AllocStep(entry, ts_ns)
    /\ UNCHANGED <<pc, exc, writes, rate, direct, mcap, robot, filt, labels, resets, charm>>

NextAlloc == AllocCall

SpecAlloc == InitAlloc /\ [][NextAlloc]_vars

----------------------------------------------------------------------------
(* C1: for any sequence of alloc_us calls, the values returned for one entry
   name are strictly increasing in call order: never equal, never
   decreasing. *)
C1_StrictlyIncreasing ==
    \A i, j \in 1..Len(allocs) :
        (i < j /\ allocs[i].entry = allocs[j].entry) => allocs[i].ret < allocs[j].ret

\* a colliding and a decreasing event time were both allocated on one entry
C1_Witness ==
    \E i, j, k \in 1..Len(allocs) :
        /\ i < j /\ j < k
        /\ allocs[i].entry = allocs[j].entry /\ allocs[j].entry = allocs[k].entry
        /\ allocs[i].ts_ns \div NsPerUs = allocs[j].ts_ns \div NsPerUs
        /\ allocs[k].ts_ns < allocs[j].ts_ns

\* the last value returned for entry e before call i, -1 when there is none
PrevRet(i, e) ==
    LET before == {j \in 1..(i - 1) : allocs[j].entry = e}
    IN  IF before = {} THEN -1
        ELSE allocs[CHOOSE j \in before : \A k \in before : k <= j].ret

(* C2: alloc_us(entry, ts_ns) returns floor(ts_ns/1000) when that is greater
   than the last unit emitted for the entry and last+1 otherwise, and records
   the returned value as the entry's new last unit; the same (entry,
   event_time) allocated twice in a row yields t and then t+1. *)
C2_AllocContract ==
    /\ \A i \in 1..Len(allocs) :
         LET e == allocs[i].entry
             floor == allocs[i].ts_ns \div NsPerUs
             last == PrevRet(i, e)
         IN  allocs[i].ret = IF floor > last THEN floor ELSE last + 1
    /\ \A e \in AllocEntries :
         Get(last_us, e, -1) = PrevRet(Len(allocs) + 1, e)
    /\ \A i \in 1..(Len(allocs) - 1) :
         (allocs[i].entry = allocs[i + 1].entry /\ allocs[i].ts_ns = allocs[i + 1].ts_ns)
             => allocs[i + 1].ret = allocs[i].ret + 1

\* the same (entry, event_time) was allocated twice in a row, after a call on
\* the other entry
C2_Witness ==
    \E i \in 2..(Len(allocs) - 1) :
        /\ allocs[i].entry = allocs[i + 1].entry
        /\ allocs[i].ts_ns = allocs[i + 1].ts_ns
        /\ allocs[i - 1].entry # allocs[i].entry
        /\ allocs[i].ret = allocs[i].ts_ns \div NsPerUs

----------------------------------------------------------------------------
(* Rate controller: the throttle ratio of one channel (main of mcap.py and of
   robot.py) and the decimation of its messages by a counter.

   count messages over clip_dur_ns give original_hz = count / clip_duration_s
   with clip_duration_s = clip_dur_ns / 1e9; target is target_hz * HzDen. *)

\* original_hz > target_hz, for clip_dur_ns > 0
HzGreater(count, clip_dur_ns, target) ==
    count * NsPerSec * HzDen > target * clip_dur_ns

\* int(original_hz / target_hz), for clip_dur_ns > 0 and target > 0
HzQuotient(count, clip_dur_ns, target) ==
    (count * NsPerSec * HzDen) \div (clip_dur_ns * target)

\* mutant: the ratio rounded up instead of down
mcap_throttle_ratio_ceil(count, clip_dur_ns, target) ==
    IF target > 0 /\ HzGreater(count, clip_dur_ns, target)
    THEN Max(1, HzQuotient(count, clip_dur_ns, target) + 1)
    ELSE 1

\* mcap.py: if target_hz > 0 and original_hz > target_hz: max(1, int(...)) else 1
mcap_throttle_ratio(count, clip_dur_ns, target) ==
    IF target > 0 /\ HzGreater(count, clip_dur_ns, target)
    THEN Max(1, HzQuotient(count, clip_dur_ns, target))
    ELSE 1

\* mcap.py: count / clip_duration_s divides by zero for an empty duration
mcap_throttle_raises(count, clip_dur_ns, target) == clip_dur_ns = 0

\* robot.py: if original_hz > target_hz: max(1, int(...)) else 1
robot_throttle_ratio(count, clip_dur_ns, target) ==
    IF HzGreater(count, clip_dur_ns, target)
    THEN Max(1, HzQuotient(count, clip_dur_ns, target))
    ELSE 1

\* robot.py: count / clip_duration_s, and original_hz / target_hz for a
\* target of 0, which the comparison does not exclude
robot_throttle_raises(count, clip_dur_ns, target) ==
    \/ clip_dur_ns = 0
    \/ (HzGreater(count, clip_dur_ns, target) /\ target = 0)

throttle_ratio(variant, count, clip_dur_ns, target) ==
    IF variant = "mcap" THEN mcap_throttle_ratio(count, clip_dur_ns, target)
    ELSE robot_throttle_ratio(count, clip_dur_ns, target)

throttle_raises(variant, count, clip_dur_ns, target) ==
    IF variant = "mcap" THEN mcap_throttle_raises(count, clip_dur_ns, target)
    ELSE robot_throttle_raises(count, clip_dur_ns, target)

\* variant: the counter is tested before it is incremented
throttle_keep_before(counter, throttle_ratio_) == (counter - 1) % throttle_ratio_ = 0

\* the message is skipped when counter % throttle_ratio != 0
throttle_keep(counter, throttle_ratio_) == counter % throttle_ratio_ = 0

MaxCount == 4          \* message counts 1..MaxCount, besides the scenario's 100

RateCounts == (1..MaxCount) \cup {100}
RateDurations == {0, NsPerSec \div 2, NsPerSec, 2 * NsPerSec, 10 * NsPerSec}
RateTargets == {0, 1, HzDen, 2 * HzDen, 10 * HzDen}

(* A channel that is downsampled (should_throttle) has its ratio computed
   before its messages are decimated; a channel that is not is in no ratio
   table and its messages are handled right away. *)
InitRate ==
    /\ exc = ""
    /\ last_us = << >>
    /\ allocs = << >>
    /\ writes = << >>
    /\ \/ \E v \in {"mcap", "robot"}, c \in RateCounts, d \in RateDurations, t \in RateTargets :
            rate = [variant |-> v, count |-> c, clip_dur_ns |-> d, target |-> t,
                    should_throttle |-> TRUE, ratio |-> 0, seen |-> 0, counter |-> 0,
                    kept |-> {}]
       \/ \E v \in {"mcap", "robot"}, c \in RateCounts :
            rate = [variant |-> v, count |-> c, clip_dur_ns |-> NsPerSec, target |-> 0,
                    should_throttle |-> FALSE, ratio |-> 0, seen |-> 0, counter |-> 0,
                    kept |-> {}]
    /\ pc = IF rate.should_throttle THEN "rate_compute" ELSE "rate_loop"
    /\ direct = DirectIdle
    /\ mcap = McapIdle
    /\ robot = RobotIdle
    /\ filt = FilterIdle
    /\ labels = LabelsIdle
    /\ resets = << >>
    /\ charm = CharmIdle

\* the body of "for topic, count in topic_msg_counts.items()" for one channel
RateCompute ==
    /\ pc = "rate_compute"
    /\ IF throttle_raises(rate.variant, rate.count, rate.clip_dur_ns, rate.target)
       THEN /\ pc' = "raised"
            /\ exc' = "ZeroDivisionError"
            /\ rate' = rate
       ELSE /\ pc' = "rate_loop"
            /\ exc' = exc
            /\ rate' = [rate EXCEPT !.ratio =
                   throttle_ratio(rate.variant, rate.count, rate.clip_dur_ns, rate.target)]
    /\ UNCHANGED <<last_us, allocs, writes, direct, mcap, robot, filt, labels, resets, charm>>

\* one candidate message of the channel, the one at index seen + 1: if
\* should_throttle, counter += 1 and keep or skip; otherwise keep
RateMessage ==
    /\ pc = "rate_loop"
    /\ rate.seen < rate.count
    /\ LET idx == rate.seen + 1
           n == rate.counter + 1
       IN  rate' = IF rate.should_throttle
                   THEN [rate EXCEPT !.seen = idx,
                                     !.counter = n,
                                     !.kept = IF throttle_keep(n, rate.ratio)
                                              THEN @ \cup {idx} ELSE @]
                   ELSE [rate EXCEPT !.seen = idx, !.kept = @ \cup {idx}]
    /\ pc' = IF rate.seen + 1 = rate.count THEN "done" ELSE pc
    /\ UNCHANGED <<exc, last_us, allocs, writes, direct, mcap, robot, filt, labels, resets, charm>>

NextRate == RateCompute \/ RateMessage

SpecRate == InitRate /\ [][NextRate]_vars

(* C5: for every throttled channel with a positive message count the ratio is
   max(1, floor(observed_hz / target_hz)) when target_hz > 0 and observed_hz >
   target_hz, and 1 when target_hz > 0 and observed_hz <= target_hz; and for
   every count >= 1, reference duration and target rate (target 0 included)
   the computation yields an integer ratio >= 1.  Stated here for the
   positive reference durations only. *)
C5_RatioAlwaysComputed ==
    (rate.variant # "none" /\ rate.should_throttle /\ pc # "rate_compute"
     /\ rate.clip_dur_ns > 0) =>
        /\ exc = ""
        /\ rate.ratio >= 1
        /\ (rate.target > 0 /\ HzGreater(rate.count, rate.clip_dur_ns, rate.target))
               => rate.ratio = Max(1, HzQuotient(rate.count, rate.clip_dur_ns, rate.target))
        /\ (rate.target > 0 /\ ~HzGreater(rate.count, rate.clip_dur_ns, rate.target))
               => rate.ratio = 1

(* C7 as stated: 100 messages over a 10-second reference duration with a
   target of 10 Hz get keep_every_n = 10, and exactly 10 of the 100 messages
   are kept, evenly spaced by index. *)
C7_Scenario10s ==
    (/\ pc = "done" /\ rate.should_throttle
     /\ rate.count = 100 /\ rate.clip_dur_ns = 10 * NsPerSec /\ rate.target = 10 * HzDen)
        => /\ rate.ratio = 10
           /\ rate.kept = {10 * k : k \in 1..10}

(* C7 amended: 100 messages over a 1-second reference duration with a target
   of 10 Hz get keep_every_n = 10, and exactly 10 of the 100 messages are
   kept, evenly spaced by index. *)
C7_Scenario1s ==
    (/\ pc = "done" /\ rate.should_throttle
     /\ rate.count = 100 /\ rate.clip_dur_ns = NsPerSec /\ rate.target = 10 * HzDen)
        => /\ rate.ratio = 10
           /\ rate.kept = {10 * k : k \in 1..10}
           /\ Cardinality(rate.kept) = 10

\* the 100 messages of the amended scenario went through the decimation
C7_Witness ==
    /\ pc = "done"
    /\ rate.variant = "mcap"
    /\ rate.count = 100 /\ rate.clip_dur_ns = NsPerSec /\ rate.target = 10 * HzDen
    /\ rate.counter = 100

----------------------------------------------------------------------------
(* Direct replay: notebooks/seed_reductstore.py

   A topic name and a type name are sequences of tokens ("/", "_" and
   words), on which lstrip, replace, endswith and split act as on the
   characters of the source's strings. *)

NoTs == -1    \* None, for a timestamp that is not set yet

EPISODE_SECONDS == 10

\* s.lstrip(ch)
RECURSIVE LStrip(_, _)
LStrip(s, ch) ==
    IF s # << >> /\ Head(s) = ch THEN LStrip(Tail(s), ch) ELSE s

\* s.replace(a, b)
Replace(s, a, b) == [i \in 1..Len(s) |-> IF s[i] = a THEN b ELSE s[i]]

\* s.split(sep)[-1]
RECURSIVE LastSegment(_, _)
LastSegment(s, sep) ==
    IF \E i \in 1..Len(s) : s[i] = sep
    THEN LastSegment(Tail(s), sep)
    ELSE s

get_entry_name(topic) ==
    LET safe_name == Replace(LStrip(topic, "/"), "/", "_")
        stripped == IF EndsWith(safe_name, <<"_", "restamped">>)
                    THEN SubSeq(safe_name, 1, Len(safe_name) - 2)
                    ELSE safe_name
    IN  IF stripped = << >> THEN <<"root">> ELSE stripped

entry_for_raw(topic) == <<"raw__">> \o get_entry_name(topic)
entry_for_csv(topic) == <<"csv__">> \o get_entry_name(topic)
entry_for_json(topic) == <<"json__">> \o get_entry_name(topic)

\* reader.get_all_topics_and_types() of the bag that is replayed: two IMU
\* topics that share an entry, and a diagnostics topic whose name ends like
\* the first one's
DirectTopicTypes ==
    [t \in {<<"/", "a">>, <<"/", "a", "_", "restamped">>, <<"/", "x", "/", "a">>} |->
        IF t = <<"/", "x", "/", "a">>
        THEN <<"diagnostic_msgs/", "msg/", "DiagnosticArray">>
        ELSE <<"sensor_msgs/", "msg/", "Imu">>]

DirectTopics == DOMAIN DirectTopicTypes

\* flatten_row(...) is not None
direct_flatten_row(topic_type) ==
    \E name \in {"CameraInfo", "CompressedImage", "PointCloud2", "Imu",
                 "MagneticField", "FluidPressure", "Temperature"} :
        \/ EndsWith(topic_type, <<"sensor_msgs/", "msg/", name>>)
        \/ EndsWith(topic_type, <<"tf2_msgs/", "msg/", "TFMessage">>)

\* what write_record hands to bucket.write: ts_ns // 1_000, no allocator
write_record(entry, ts_ns) == [entry |-> entry, ts |-> ts_ns \div NsPerUs]

\* mutant: write_record swallows every ReductError
write_record_raises_none(resp) == FALSE

\* write_record re-raises a ReductError unless its status is 409
write_record_raises(resp) == resp # "ok" /\ resp # "409"

(* The answers of the sink to the calls ws, issued one after the other on top
   of the log: the bucket was emptied when the run started, so a call is
   answered 409 exactly when the log holds an accepted record with its entry
   and timestamp; call number fail (0: none) is answered with an error. *)
RECURSIVE sink_answers(_, _, _)
sink_answers(log, ws, fail) ==
    IF ws = << >> THEN << >>
    ELSE LET w == Head(ws)
             dup == \E i \in 1..Len(log) :
                        /\ log[i].entry = w.entry /\ log[i].ts = w.ts
                        /\ log[i].resp = "ok"
             resp == IF fail = 1 THEN "error" ELSE IF dup THEN "409" ELSE "ok"
             a == Answered(w.entry, w.ts, resp)
         IN  <<a>> \o sink_answers(Append(log, a), Tail(ws), fail - 1)

\* the calls of ws that are issued: write_record raises at the first answer
\* it does not swallow, and nothing is written after it
RECURSIVE issued(_)
issued(answers) ==
    IF answers = << >> THEN << >>
    ELSE IF write_record_raises(Head(answers).resp) THEN <<Head(answers)>>
    ELSE <<Head(answers)>> \o issued(Tail(answers))

\* window_start_ns + int(EPISODE_SECONDS * 1e9)
window_end(window_start_ns) == window_start_ns + EPISODE_SECONDS * NsPerSec

\* start_episode(...): a fresh, empty episode writer
start_episode(idx) == << >>

\* mutant: the message is not written into the episode
episode_writer_write_drop(writer, idx) == writer

\* episode_writer.write(topic, cdr_bytes, t_ns); idx is the message's position
\* in the source
episode_writer_write(writer, idx) == Append(writer, idx)

\* per_topic_rows.setdefault(topic, []).append(row); a list of [topic, rows]
\* in insertion order, as the dict iterates
rows_append(rows, topic, t_ns) ==
    IF \E i \in 1..Len(rows) : rows[i].topic = topic
    THEN [i \in 1..Len(rows) |->
            IF rows[i].topic = topic
            THEN [rows[i] EXCEPT !.rows = Append(@, t_ns)]
            ELSE rows[i]]
    ELSE Append(rows, [topic |-> topic, rows |-> <<t_ns>>])

\* the CSV and the JSON record of every topic that gathered rows
RECURSIVE rows_uploads(_, _)
rows_uploads(rows, start_ns) ==
    IF rows = << >> THEN << >>
    ELSE <<write_record(entry_for_csv(Head(rows).topic), start_ns),
           write_record(entry_for_json(Head(rows).topic), start_ns)>>
         \o rows_uploads(Tail(rows), start_ns)

\* the uploads of a closing episode: the MCAP blob, then the per-topic rows
close_uploads(d) ==
    <<write_record(<<"mcap">>, d.window_start_ns)>>
    \o rows_uploads(d.per_topic_rows, d.window_start_ns)

\* a label value: a number or a string of tokens
IntLabel(n) == [n |-> n, s |-> << >>]
StrLabel(s) == [n |-> -1, s |-> s]

\* len(blob) of the MCAP file that holds the messages of writer
blob_bytes(writer) == 1 + Len(writer)

\* the labels of the "mcap" record: the aggregate keys, then
\* labels.update(ep_topics)
episode_record_labels(d) ==
    [k \in DOMAIN d.ep_topics |-> StrLabel(d.ep_topics[k])]
    @@ [k \in {<<"window_s">>, <<"file_bytes">>, <<"topics_count">>, <<"messages">>,
               <<"serialization">>} |->
           CASE k = <<"window_s">> -> IntLabel(EPISODE_SECONDS)
             [] k = <<"file_bytes">> -> IntLabel(blob_bytes(d.episode_writer))
             [] k = <<"topics_count">> -> IntLabel(Cardinality(DOMAIN d.ep_topics))
             [] k = <<"messages">> -> IntLabel(d.ep_msgs)
             [] OTHER -> StrLabel(<<"cdr">>)]

\* the episode that is closed, as it is serialized and labelled
closed_episode(d, uploaded) ==
    [index |-> d.episode_index,
     start_ns |-> d.window_start_ns,
     end_ns |-> d.window_end_ns,
     msgs |-> d.episode_writer,
     topics_count |-> Cardinality(DOMAIN d.ep_topics),
     messages |-> d.ep_msgs,
     labels |-> episode_record_labels(d),
     uploaded |-> uploaded]

DirectStart ==
    [on |-> TRUE, source |-> << >>, first_ts_ns |-> NoTs, last_ts_ns |-> NoTs,
     msg_count |-> 0, writer_open |-> FALSE, episode_writer |-> << >>,
     window_start_ns |-> NoTs, window_end_ns |-> NoTs, episode_index |-> 0,
     ep_topics |-> << >>, ep_msgs |-> 0, per_topic_rows |-> << >>,
     episodes |-> << >>, undecoded |-> {}]

\* lines 272-284: the message is read; the first one opens the first window
direct_read(d, topic, t_ns) ==
    LET d1 == [d EXCEPT !.source = Append(@, [topic |-> topic, t_ns |-> t_ns]),
                        !.last_ts_ns = t_ns]
    IN  IF d.first_ts_ns = NoTs
        THEN [d1 EXCEPT !.first_ts_ns = t_ns,
                        !.writer_open = TRUE,
                        !.episode_writer = start_episode(Len(d1.source)),
                        !.window_start_ns = t_ns,
                        !.window_end_ns = window_end(t_ns)]
        ELSE d1

\* lines 322-331: the message goes into the open episode and into the rows
direct_accumulate(d, topic, t_ns) ==
    [d EXCEPT !.episode_writer = episode_writer_write(@, Len(d.source)),
              !.ep_topics = Put(@, IF LastSegment(topic, "/") = << >> THEN topic
                                      ELSE LastSegment(topic, "/"),
                                   DirectTopicTypes[topic]),
              !.ep_msgs = @ + 1,
              !.per_topic_rows = IF direct_flatten_row(DirectTopicTypes[topic])
                                 THEN rows_append(@, topic, t_ns) ELSE @]

\* line 334
direct_closes(d, t_ns) == d.window_end_ns # NoTs /\ t_ns >= d.window_end_ns

\* lines 382-393: the accumulators are reset and the next window starts at t_ns
direct_reopen(d, t_ns) ==
    [d EXCEPT !.episodes = Append(@, closed_episode(d, TRUE)),
              !.episode_index = @ + 1,
              !.ep_topics = << >>,
              !.ep_msgs = 0,
              !.per_topic_rows = << >>,
              !.writer_open = TRUE,
              !.episode_writer = start_episode(Len(d.source)),
              !.window_start_ns = t_ns,
              !.window_end_ns = window_end(t_ns)]

\* the episode is closed (episode_writer = None) and uploading it raised
\* after the first n uploads: n = 0 when the MCAP write itself raised
direct_close_failed(d, n) ==
    [d EXCEPT !.episodes = Append(@, closed_episode(d, n > 0)),
              !.writer_open = FALSE]

MaxDirectMsgs == 3     \* messages the source yields at most

DirectFirstTs == {0, TimeStepNs, NsPerUs}
DirectDeltas == {0, TimeStepNs, EPISODE_SECONDS * NsPerSec - TimeStepNs,
                 EPISODE_SECONDS * NsPerSec}

\* the timestamps read_next may yield next: the source is in time order
DirectNextTs(d) ==
    IF d.source = << >> THEN DirectFirstTs
    ELSE {d.last_ts_ns + delta : delta \in DirectDeltas}

\* bucket.get_entry_list() when the run starts: the entries of an earlier run
DirectStaleEntries == {<< >>, <<entry_for_raw(<<"/", "a">>), <<"mcap">>>>}

InitDirect ==
    /\ pc = "direct_init"
    /\ exc = ""
    /\ last_us = << >>
    /\ allocs = << >>
    /\ writes = << >>
    /\ rate = RateIdle
    /\ direct = DirectStart
    /\ mcap = McapIdle
    /\ robot = RobotIdle
    /\ filt = FilterIdle
    /\ labels = LabelsIdle
    /\ resets = << >>
    /\ charm = CharmIdle

\* lines 229-268: the reader is opened and every entry of the bucket is removed
DirectInit ==
    /\ pc = "direct_init"
    /\ \E stale \in DirectStaleEntries :
         resets' = clear_bucket(resets, stale, writes)
    /\ pc' = "direct_loop"
    /\ UNCHANGED <<exc, last_us, allocs, writes, rate, direct, mcap, robot, filt, labels, charm>>

(* One iteration of "while reader.has_next()": the raw record, the episode,
   the rows, and the closing of the window with its uploads.  The sink
   answers every write; a 409 is swallowed by write_record and the run goes
   on as after an accepted write, any other error ends the run.  fail = 0:
   no write is answered with an error; fail = k: the k-th write of this
   iteration is.  deserialize_message is called outside any try block: a
   payload that does not decode ("bad") ends the run before anything is
   written for the message. *)
DirectMessage ==
    /\ pc = "direct_loop"
    /\ Len(direct.source) < MaxDirectMsgs
    /\ \E topic \in DirectTopics, t_ns \in DirectNextTs(direct) :
         LET d1 == direct_read(direct, topic, t_ns)
             raw == write_record(entry_for_raw(topic), t_ns)
             d2 == direct_accumulate(d1, topic, t_ns)
             closes == direct_closes(d2, t_ns)
             ups == IF closes THEN close_uploads(d2) ELSE << >>
             d3 == IF closes THEN direct_reopen(d2, t_ns) ELSE d2
         IN  \/ /\ direct' = [direct EXCEPT
                                 !.source = Append(@, [topic |-> topic, t_ns |-> t_ns]),
                                 !.undecoded = @ \cup {Len(direct.source) + 1}]
                /\ pc' = "raised"
                /\ exc' = "DecodeError"
                /\ UNCHANGED writes
             \/ \E fail \in 0..(1 + Len(ups)) :
                  LET done == issued(sink_answers(writes, <<raw>> \o ups, fail))
                      raised == write_record_raises(done[Len(done)].resp)
                  IN  /\ writes' = writes \o done
                      /\ IF ~raised
                         THEN /\ direct' = [d3 EXCEPT !.msg_count = @ + 1]
                              /\ UNCHANGED <<pc, exc, charm>>
                         ELSE /\ direct' = IF Len(done) = 1 THEN d1
                                           ELSE direct_close_failed(d2, Len(done) - 2)
                              /\ pc' = "raised"
                              /\ exc' = "ReductError"
    /\ UNCHANGED <<last_us, allocs, rate, mcap, robot, filt, labels, resets, charm>>

(* The source is exhausted: the final flush closes the open episode and
   uploads it with the rows gathered since the last close. *)
DirectFlush ==
    /\ pc = "direct_loop"
    /\ LET ups == IF direct.writer_open THEN close_uploads(direct) ELSE << >>
       IN  \E fail \in 0..Len(ups) :
             LET done == issued(sink_answers(writes, ups, fail))
                 raised == done # << >> /\ write_record_raises(done[Len(done)].resp)
             IN  /\ writes' = writes \o done
                 /\ IF ~raised
                    THEN /\ direct' = IF direct.writer_open
                                      THEN [direct EXCEPT
                                              !.episodes = Append(@, closed_episode(direct, TRUE)),
                                              !.writer_open = FALSE]
                                      ELSE direct
                         /\ pc' = "done"
                         /\ exc' = exc
                    ELSE /\ direct' = direct_close_failed(direct, Len(done) - 1)
                         /\ pc' = "raised"
                         /\ exc' = "ReductError"
    /\ UNCHANGED <<last_us, allocs, rate, mcap, robot, filt, labels, resets, charm>>

NextDirect == DirectInit \/ DirectMessage \/ DirectFlush

SpecDirect == InitDirect /\ [][NextDirect]_vars

\* the timestamps of the writes to entry e are strictly increasing
WritesIncreasing(e) ==
    LET w == SelectEntry(writes, e)
    IN  \A i \in 1..(Len(w) - 1) : w[i].ts < w[i + 1].ts

WrittenEntries == {writes[i].entry : i \in 1..Len(writes)}

(* C4: in direct replay the timestamps submitted to the sink by successive
   writes to one entry are strictly increasing, even if two messages routed
   to that entry have event times in the same microsecond. *)
C4_DirectWritesIncreasing ==
    direct.on => \A e \in WrittenEntries : WritesIncreasing(e)

\* the timestamp of source message i
SourceTs(i) == direct.source[i].t_ns

(* C9: in direct replay every message written into an episode has a timestamp
   t with window_start_ns <= t < window_end_ns of that episode when it is
   closed; a message at or after window_end_ns is deferred to the next
   episode. *)
C9_EpisodeWithinWindow ==
    direct.on =>
        \A k \in 1..Len(direct.episodes) :
            LET ep == direct.episodes[k]
            IN  \A n \in 1..Len(ep.msgs) :
                    /\ ep.start_ns <= SourceTs(ep.msgs[n])
                    /\ SourceTs(ep.msgs[n]) < ep.end_ns

\* the messages of the closed episodes and of the open one, in order
RECURSIVE EpisodeMsgs(_)
EpisodeMsgs(eps) ==
    IF eps = << >> THEN << >> ELSE Head(eps).msgs \o EpisodeMsgs(Tail(eps))

AllEpisodeMsgs ==
    EpisodeMsgs(direct.episodes)
    \o (IF direct.writer_open THEN direct.episode_writer ELSE << >>)

(* C10: in direct replay every message read from the source is written into
   exactly one episode: none appears in two episodes and none is left out.
   When a sink error ends the run, only the message whose raw record was
   being written can be missing. *)
C10_ExactlyOneEpisode ==
    direct.on =>
        /\ \A i, j \in 1..Len(AllEpisodeMsgs) :
               i # j => AllEpisodeMsgs[i] # AllEpisodeMsgs[j]
        /\ pc # "raised" =>
               AllEpisodeMsgs = [i \in 1..Len(direct.source) |-> i]
        /\ pc = "raised" =>
               \E n \in {Len(direct.source) - 1, Len(direct.source)} :
                   AllEpisodeMsgs = [i \in 1..n |-> i]

\* a finished run of three messages in three episodes, each window closed by
\* a message exactly at its end
C10_Witness ==
    /\ direct.on
    /\ pc = "done"
    /\ Len(direct.source) = 3
    /\ Len(direct.episodes) = 3
    /\ SourceTs(2) = direct.episodes[1].end_ns
    /\ SourceTs(3) = direct.episodes[2].end_ns

----------------------------------------------------------------------------
(* Looped replay into MCAP episodes: seeds/mcap.py *)

\* str.lower() of one token
Lower(tok) ==
    CASE tok = "LiDAR" -> "lidar"
      [] tok = "Scan" -> "scan"
      [] OTHER -> tok

LowerSeq(s) == [i \in 1..Len(s) |-> Lower(s[i])]

TypePointCloud2 == <<"sensor_msgs/", "msg/", "PointCloud2">>
TypeImage == <<"sensor_msgs/", "msg/", "Image">>
TypeCompressedImage == <<"sensor_msgs/", "msg/", "CompressedImage">>
TypeCameraInfo == <<"sensor_msgs/", "msg/", "CameraInfo">>
TypeImu == <<"sensor_msgs/", "msg/", "Imu">>
TypeTF == <<"tf2_msgs/", "msg/", "TFMessage">>

LidarPatterns ==
    {<<"lidar">>, <<"laser">>, <<"scan">>, <<"os", "_", "node">>, <<"ouster">>,
     <<"velodyne">>, <<"sick">>, <<"hokuyo">>}

EssentialPatterns ==
    {<<"sensor_msgs/", "msg/", "Imu">>, <<"sensor_msgs/", "msg/", "MagneticField">>,
     <<"sensor_msgs/", "msg/", "FluidPressure">>, <<"sensor_msgs/", "msg/", "Temperature">>,
     <<"tf2_msgs/", "msg/", "TFMessage">>, <<"nav_msgs/">>, <<"geometry_msgs/">>,
     <<"std_msgs/">>}

is_image_type(topic_type) ==
    EndsWith(topic_type, TypeImage) \/ EndsWith(topic_type, TypeCompressedImage)

\* mutant: the image allow-list is consulted before the name patterns
should_include_topic_allow_first(cfg, topic, topic_type) ==
    IF EndsWith(topic_type, TypePointCloud2) THEN FALSE
    ELSE IF is_image_type(topic_type) THEN topic \in cfg.ALLOWED_IMAGE_TOPICS
    ELSE IF \E p \in LidarPatterns : Contains(LowerSeq(topic), p) THEN FALSE
    ELSE IF EndsWith(topic_type, TypeCameraInfo) THEN topic \in cfg.ALLOWED_CAMERA_INFO_TOPICS
    ELSE IF \E p \in EssentialPatterns : Contains(topic_type, p) THEN TRUE
    ELSE FALSE

\* mutant: no rule for camera info
should_include_topic_no_camera_info(cfg, topic, topic_type) ==
    IF EndsWith(topic_type, TypePointCloud2) THEN FALSE
    ELSE IF \E p \in LidarPatterns : Contains(LowerSeq(topic), p) THEN FALSE
    ELSE IF is_image_type(topic_type) THEN topic \in cfg.ALLOWED_IMAGE_TOPICS
    ELSE IF \E p \in EssentialPatterns : Contains(topic_type, p) THEN TRUE
    ELSE FALSE

\* mcap.py should_include_topic, under configuration cfg
should_include_topic(cfg, topic, topic_type) ==
    IF EndsWith(topic_type, TypePointCloud2) THEN FALSE
    ELSE IF \E p \in LidarPatterns : Contains(LowerSeq(topic), p) THEN FALSE
    ELSE IF is_image_type(topic_type) THEN topic \in cfg.ALLOWED_IMAGE_TOPICS
    ELSE IF EndsWith(topic_type, TypeCameraInfo) THEN topic \in cfg.ALLOWED_CAMERA_INFO_TOPICS
    ELSE IF \E p \in EssentialPatterns : Contains(topic_type, p) THEN TRUE
    ELSE FALSE

\* mcap.py should_downsample_topic
should_downsample_topic(cfg, topic, topic_type) ==
    \/ (is_image_type(topic_type) /\ topic \in cfg.ALLOWED_IMAGE_TOPICS)
    \/ (EndsWith(topic_type, TypePointCloud2) /\ topic \in cfg.ALLOWED_POINTCLOUD_TOPICS)

\* mcap.py get_target_frequency, for the types that are downsampled
get_target_frequency(cfg, topic, topic_type) ==
    IF EndsWith(topic_type, TypePointCloud2) THEN cfg.TARGET_POINTCLOUD_HZ
    ELSE cfg.TARGET_IMAGE_HZ

\* the clip's topics and their types
TopicImage == <<"/", "camera", "/", "image">>
TopicImu == <<"/", "imu">>
TopicPoints == <<"/", "points">>

ClipTopicTypes ==
    [t \in {TopicImage, TopicImu, TopicPoints} |->
        IF t = TopicImage THEN TypeCompressedImage
        ELSE IF t = TopicImu THEN TypeImu
        ELSE TypePointCloud2]

ClipTopics == DOMAIN ClipTopicTypes

\* (last_ts_ns - first_ts_ns) if (first_ts_ns and last_ts_ns)
\*     else int(CFG.CLIP_SECONDS * 1e9)
clip_dur_ns(cfg, first_ts_ns, last_ts_ns) ==
    IF first_ts_ns # 0 /\ last_ts_ns # 0
    THEN last_ts_ns - first_ts_ns
    ELSE cfg.CLIP_SECONDS * NsPerSec

\* the number of messages of topic t in msgs
RECURSIVE CountTopic(_, _)
CountTopic(msgs, t) ==
    IF msgs = << >> THEN 0
    ELSE (IF Head(msgs).topic = t THEN 1 ELSE 0) + CountTopic(Tail(msgs), t)

\* topic_msg_counts: the included, downsampled topics that have messages
mcap_topic_msg_counts(cfg, msgs) ==
    LET counted == {t \in ClipTopics :
                      /\ CountTopic(msgs, t) > 0
                      /\ should_include_topic(cfg, t, ClipTopicTypes[t])
                      /\ should_downsample_topic(cfg, t, ClipTopicTypes[t])}
    IN  [t \in counted |-> CountTopic(msgs, t)]

mcap_ratios_raise(cfg, counts, dur_ns) ==
    \E t \in DOMAIN counts :
        mcap_throttle_raises(counts[t], dur_ns, get_target_frequency(cfg, t, ClipTopicTypes[t]))

mcap_throttle_ratios(cfg, counts, dur_ns) ==
    [t \in DOMAIN counts |->
        mcap_throttle_ratio(counts[t], dur_ns, get_target_frequency(cfg, t, ClipTopicTypes[t]))]

\* mutant: a session starts every second, whatever the interval
build_session_starts_dense(start_ns, end_ns, interval_s) ==
    [k \in 1..((end_ns - start_ns) \div NsPerSec + 1) |-> start_ns + (k - 1) * NsPerSec]

\* build_session_starts: start, start + interval, ... while t <= end
build_session_starts(start_ns, end_ns, interval_s) ==
    [k \in 1..((end_ns - start_ns) \div (interval_s * NsPerSec) + 1) |->
        start_ns + (k - 1) * interval_s * NsPerSec]

\* mutant: a single episode per session
episodes_per_session_one(cfg) == 1

\* max(1, int(SESSION_DURATION_SECONDS / EPISODE_DURATION_SECONDS))
episodes_per_session(cfg) ==
    Max(1, cfg.SESSION_DURATION_SECONDS \div cfg.EPISODE_DURATION_SECONDS)

\* new_ts_ns = episode_start_ns + (original_ts_ns - original_first_ns)
remap_ts(episode_start_ns, original_ts_ns, original_first_ns) ==
    episode_start_ns + (original_ts_ns - original_first_ns)

\* variant: the counters go on from episode to episode
fresh_msg_counters_carried(episode_start_ns) ==
    [t \in ClipTopics |-> episode_start_ns \div NsPerSec]

\* msg_counters = defaultdict(int), for the episode that starts at
\* episode_start_ns
fresh_msg_counters(episode_start_ns) == << >>

(* create_mcap_episode: the messages written into the episode, from message
   i of the clip on, with the per-episode counters msg_counters. *)
RECURSIVE create_mcap_episode(_, _, _, _, _, _, _)
create_mcap_episode(cfg, msgs, i, msg_counters, episode_start_ns, original_first_ns, throttle_ratios) ==
    IF i > Len(msgs) THEN << >>
    ELSE
      LET topic == msgs[i].topic
          topic_type == ClipTopicTypes[topic]
          new_ts_ns == remap_ts(episode_start_ns, msgs[i].t_ns, original_first_ns)
          should_throttle == should_downsample_topic(cfg, topic, topic_type)
          counters == IF should_throttle
                      THEN Put(msg_counters, topic, Get(msg_counters, topic, 0) + 1)
                      ELSE msg_counters
          rest(c) == create_mcap_episode(cfg, msgs, i + 1, c, episode_start_ns,
                                         original_first_ns, throttle_ratios)
      IN  IF ~should_include_topic(cfg, topic, topic_type) THEN rest(msg_counters)
          ELSE IF should_throttle
                  /\ ~throttle_keep(counters[topic], Get(throttle_ratios, topic, 1))
               THEN rest(counters)
          ELSE <<[topic |-> topic, ts_ns |-> new_ts_ns, idx |-> i]>> \o rest(counters)

\* len(cdr_bytes) of a message of the clip, by its topic
PayloadBytes ==
    [t \in ClipTopics |-> IF t = TopicImage THEN 3 ELSE IF t = TopicImu THEN 1 ELSE 5]

\* the summed payload bytes of the messages ms
RECURSIVE SumBytes(_)
SumBytes(ms) == IF ms = << >> THEN 0 ELSE PayloadBytes[Head(ms).topic] + SumBytes(Tail(ms))

\* calculate_episode_stats(msgs, topics): the counts of the list it is given
episode_stats(msgs) ==
    [total_messages |-> Len(msgs),
     total_topics |-> Cardinality({msgs[i].topic : i \in 1..Len(msgs)}),
     total_bytes |-> SumBytes(msgs)]

MaxClipMsgs == 2       \* messages of the clip at most

\* a Config of mcap.py: target image rate hz, session duration S, episode
\* duration E and session interval iv in seconds, sessions scheduled over
\* span seconds
McapConfig(hz, S, E, iv, span) ==
    [ENTRY_NAME |-> "episodes",
     ALLOWED_IMAGE_TOPICS |-> {TopicImage},
     ALLOWED_CAMERA_INFO_TOPICS |-> {},
     ALLOWED_POINTCLOUD_TOPICS |-> {TopicPoints},
     TARGET_IMAGE_HZ |-> hz,
     TARGET_POINTCLOUD_HZ |-> 0,
     CLIP_SECONDS |-> 1,
     SESSION_DURATION_SECONDS |-> S,
     EPISODE_DURATION_SECONDS |-> E,
     SESSION_INTERVAL_SECONDS |-> iv,
     START_NS |-> TimeStepNs,
     END_NS |-> TimeStepNs + span * NsPerSec]

\* session plans <<S, E, iv, span>>: one episode per session, an episode
\* longer than the session, a session that is not a multiple of the episode,
\* and the 600-second session of 30-second episodes
SessionPlans == {<<1, 1, 1, 2>>, <<1, 2, 2, 2>>, <<3, 2, 3, 3>>, <<600, 30, 600, 600>>}

\* a Config that lists the image topic in the point-cloud allow-list as well
McapConfigBothLists ==
    [McapConfig(10 * HzDen, 2, 1, 2, 2) EXCEPT
        !.ALLOWED_POINTCLOUD_TOPICS = {TopicImage, TopicPoints}]

McapConfigs ==
    {McapConfig(hz, 2, 1, iv, 2) : hz \in {0, 2 * HzDen, 10 * HzDen}, iv \in {1, 2}}
    \cup {McapConfig(10 * HzDen, p[1], p[2], p[3], p[4]) : p \in SessionPlans}
    \cup {McapConfigBothLists}

ClipFirstTs == {0, TimeStepNs}
ClipDeltas == {0, TimeStepNs, NsPerSec}

\* the timestamps read_next may yield next: the clip is in time order
ClipNextTs(msgs) ==
    IF msgs = << >> THEN ClipFirstTs
    ELSE {msgs[Len(msgs)].t_ns + delta : delta \in ClipDeltas}

\* bucket.get_entry_list() when the run starts: the entries of an earlier run
McapStaleEntries == {<< >>, <<"image", "episodes">>}

\* clear_bucket of mcap.py removes the entry ENTRY_NAME only
mcap_removed(cfg, stale) == SelectSeq(stale, LAMBDA e : e = cfg.ENTRY_NAME)

McapStart(cfg) ==
    [on |-> TRUE, cfg |-> cfg, msgs |-> << >>, first_ts_ns |-> NoTs, last_ts_ns |-> NoTs,
     throttle_ratios |-> << >>, session_starts_ns |-> << >>, episodes_per_session |-> 0,
     s_idx |-> 0, session_end_ns |-> NoTs, episode_i |-> 0, total_episodes |-> 0,
     episodes |-> << >>]

InitMcap ==
    /\ pc = "mcap_read"
    /\ exc = ""
    /\ last_us = << >>
    /\ allocs = << >>
    /\ writes = << >>
    /\ rate = RateIdle
    /\ direct = DirectIdle
    /\ \E cfg \in McapConfigs : mcap = McapStart(cfg)
    /\ robot = RobotIdle
    /\ filt = FilterIdle
    /\ labels = LabelsIdle
    /\ resets = << >>
    /\ charm = CharmIdle

\* lines 519-525: one message of the clip is read
McapRead ==
    /\ pc = "mcap_read"
    /\ Len(mcap.msgs) < MaxClipMsgs
    /\ \E topic \in ClipTopics, t_ns \in ClipNextTs(mcap.msgs) :
         mcap' = [mcap EXCEPT
                    !.msgs = Append(@, [topic |-> topic, t_ns |-> t_ns]),
                    !.first_ts_ns = IF @ = NoTs THEN t_ns ELSE @,
                    !.last_ts_ns = t_ns]
    /\ UNCHANGED <<pc, exc, last_us, allocs, writes, rate, direct, robot, filt, labels, resets, charm>>

(* lines 532-612: the clip is read; an empty clip ends the run; otherwise the
   clip's duration, the throttle ratios, the session schedule and the number
   of episodes per session are computed and the bucket is cleared. *)
McapPrepare ==
    /\ pc = "mcap_read"
    /\ LET dur_ns == clip_dur_ns(mcap.cfg, mcap.first_ts_ns, mcap.last_ts_ns)
           counts == mcap_topic_msg_counts(mcap.cfg, mcap.msgs)
       IN  IF mcap.msgs = << >>
           THEN /\ pc' = "done"
                /\ UNCHANGED <<exc, mcap, resets, charm>>
           ELSE IF mcap_ratios_raise(mcap.cfg, counts, dur_ns)
           THEN /\ pc' = "raised"
                /\ exc' = "ZeroDivisionError"
                /\ UNCHANGED <<mcap, resets, charm>>
           ELSE /\ pc' = "mcap_session"
                /\ exc' = exc
                /\ \E stale \in McapStaleEntries :
                     resets' = clear_bucket(resets, mcap_removed(mcap.cfg, stale), writes)
                /\ mcap' = [mcap EXCEPT
                      !.throttle_ratios = mcap_throttle_ratios(mcap.cfg, counts, dur_ns),
                      !.session_starts_ns =
                          build_session_starts(mcap.cfg.START_NS, mcap.cfg.END_NS,
                                               mcap.cfg.SESSION_INTERVAL_SECONDS),
                      !.episodes_per_session = episodes_per_session(mcap.cfg)]
    /\ UNCHANGED <<last_us, allocs, writes, rate, direct, robot, filt, labels, charm>>

\* lines 627-646: the next session starts
McapSession ==
    /\ pc = "mcap_session"
    /\ mcap.s_idx < Len(mcap.session_starts_ns)
    /\ mcap' = [mcap EXCEPT
          !.session_end_ns = mcap.session_starts_ns[mcap.s_idx + 1]
                             + mcap.cfg.SESSION_DURATION_SECONDS * NsPerSec,
          !.episode_i = 0]
    /\ pc' = "mcap_episode"
    /\ UNCHANGED <<exc, last_us, allocs, writes, rate, direct, robot, filt, labels, resets, charm>>

(* lines 648-682: one iteration of the episode loop.  The episode is built
   from the whole clip and written through write_mcap_episode, which
   allocates the timestamp and calls bucket.write; any error of the sink,
   a 409 included, leaves main as an exception. *)
McapEpisode ==
    /\ pc = "mcap_episode"
    /\ LET s_start == mcap.session_starts_ns[mcap.s_idx + 1]
           episode_ns == mcap.cfg.EPISODE_DURATION_SECONDS * NsPerSec
           episode_start_ns == s_start + mcap.episode_i * episode_ns
           episode_end_ns == episode_start_ns + episode_ns
           written == create_mcap_episode(mcap.cfg, mcap.msgs, 1,
                                          fresh_msg_counters(episode_start_ns),
                                          episode_start_ns,
                                          mcap.first_ts_ns, mcap.throttle_ratios)
           ts_us == alloc_us(last_us, mcap.cfg.ENTRY_NAME, episode_start_ns)
       IN  IF mcap.episode_i >= mcap.episodes_per_session \/ episode_end_ns > mcap.session_end_ns
           THEN \* the loop is over, or left by break
                /\ mcap' = [mcap EXCEPT !.s_idx = @ + 1]
                /\ pc' = "mcap_session"
                /\ UNCHANGED <<exc, last_us, allocs, writes, charm>>
           ELSE /\ AllocStep(mcap.cfg.ENTRY_NAME, episode_start_ns)
                /\ \E sink \in {"ok", "409", "error"} :
                     /\ writes' = Append(writes, Answered(mcap.cfg.ENTRY_NAME, ts_us, sink))
                     /\ IF sink = "ok"
                        THEN /\ mcap' = [mcap EXCEPT
                                   !.episodes = Append(@, [s_idx |-> mcap.s_idx,
                                                           episode_i |-> mcap.episode_i,
                                                           start_ns |-> episode_start_ns,
                                                           end_ns |-> episode_end_ns,
                                                           msgs |-> written,
                                                           stats |-> episode_stats(mcap.msgs)]),
                                   !.episode_i = @ + 1,
                                   !.total_episodes = @ + 1]
                             /\ UNCHANGED <<pc, exc, charm>>
                        ELSE /\ pc' = "raised"
                             /\ exc' = IF sink = "409" THEN "ReductError409" ELSE "ReductError"
                             /\ UNCHANGED mcap
    /\ UNCHANGED <<rate, direct, robot, filt, labels, resets, charm>>

\* lines 688-694: every session is done
McapDone ==
    /\ pc = "mcap_session"
    /\ mcap.s_idx = Len(mcap.session_starts_ns)
    /\ pc' = "done"
    /\ UNCHANGED <<exc, last_us, allocs, writes, rate, direct, mcap, robot, filt, labels, resets, charm>>

NextMcap == McapRead \/ McapPrepare \/ McapSession \/ McapEpisode \/ McapDone

SpecMcap == InitMcap /\ [][NextMcap]_vars

----------------------------------------------------------------------------
(* Looped replay into image, point-cloud and JSON records: seeds/robot.py *)

IMAGE_ENTRY == <<"image">>
POINTCLOUD_ENTRY == <<"point_cloud">>

TopicTf == <<"/", "tf">>

\* the clip's topics and their types; a message payload is "ok", "bad" (it
\* does not deserialize) or "raw" (an image in a format that is neither JPEG
\* nor PNG)
RobotTopicTypes ==
    [t \in {TopicImage, TopicImu, TopicPoints, TopicTf} |->
        IF t = TopicImage THEN TypeCompressedImage
        ELSE IF t = TopicImu THEN TypeImu
        ELSE IF t = TopicPoints THEN TypePointCloud2
        ELSE TypeTF]

RobotPayloads(topic) ==
    IF topic = TopicImage THEN {"ok", "raw", "bad"}
    ELSE IF topic = TopicImu THEN {"ok", "bad"}
    ELSE {"ok"}

is_tf_type(topic_type) == EndsWith(topic_type, TypeTF)

\* robot.py get_json_entry_name
get_json_entry_name(topic) ==
    CASE topic = <<"/", "rsense", "/", "color", "/", "camera_info", "_", "restamped">>
             -> <<"camera_info">>
      [] topic = <<"/", "vectornav", "/", "Mag", "_", "restamped">> -> <<"magnetic_field">>
      [] topic = <<"/", "vectornav", "/", "Pres", "_", "restamped">> -> <<"pressure">>
      [] topic = <<"/", "vectornav", "/", "Temp", "_", "restamped">> -> <<"temperature">>
      [] topic = <<"/", "vectornav", "/", "IMU", "_", "restamped">> -> <<"imu">>
      [] OTHER -> <<"json__">> \o Replace(LStrip(topic, "/"), "/", "_")

\* robot.py flatten_row(...) is not None
robot_flatten_row(cfg, topic, topic_type) ==
    \/ (EndsWith(topic_type, TypeCameraInfo) /\ topic \in cfg.ALLOWED_CAMERA_INFO_TOPICS)
    \/ EndsWith(topic_type, TypeImu)
    \/ topic = <<"/", "vectornav", "/", "IMU", "_", "restamped">>
    \/ EndsWith(topic_type, <<"sensor_msgs/", "msg/", "MagneticField">>)
    \/ topic = <<"/", "vectornav", "/", "Mag", "_", "restamped">>
    \/ EndsWith(topic_type, <<"sensor_msgs/", "msg/", "FluidPressure">>)
    \/ topic = <<"/", "vectornav", "/", "Pres", "_", "restamped">>
    \/ EndsWith(topic_type, <<"sensor_msgs/", "msg/", "Temperature">>)
    \/ topic = <<"/", "vectornav", "/", "Temp", "_", "restamped">>

\* hasattr(msg_obj, "data"), hasattr(msg_obj, "format"), by the message type
has_data(topic_type) ==
    is_image_type(topic_type) \/ EndsWith(topic_type, TypePointCloud2)
has_format(topic_type) == EndsWith(topic_type, TypeCompressedImage)

\* lines 442-452: the allowed image and point-cloud topics that have messages
robot_topic_msg_counts(cfg, msgs) ==
    LET counted == {t \in DOMAIN RobotTopicTypes :
                      /\ CountTopic(msgs, t) > 0
                      /\ \/ (is_image_type(RobotTopicTypes[t])
                             /\ t \in cfg.ALLOWED_IMAGE_TOPICS)
                         \/ (EndsWith(RobotTopicTypes[t], TypePointCloud2)
                             /\ t \in cfg.ALLOWED_POINTCLOUD_TOPICS)}
    IN  [t \in counted |-> CountTopic(msgs, t)]

\* lines 463-466
robot_target_hz(cfg, topic_type) ==
    IF EndsWith(topic_type, TypePointCloud2) THEN cfg.TARGET_POINTCLOUD_HZ
    ELSE cfg.TARGET_IMAGE_HZ

robot_ratios_raise(cfg, counts, dur_ns) ==
    \E t \in DOMAIN counts :
        robot_throttle_raises(counts[t], dur_ns, robot_target_hz(cfg, RobotTopicTypes[t]))

robot_throttle_ratios(cfg, counts, dur_ns) ==
    [t \in DOMAIN counts |->
        robot_throttle_ratio(counts[t], dur_ns, robot_target_hz(cfg, RobotTopicTypes[t]))]

\* max(1, int(SESSION_DURATION_SECONDS / CLIP_SECONDS))
loops_per_session(cfg) == Max(1, cfg.SESSION_DURATION_SECONDS \div cfg.CLIP_SECONDS)

\* json_batches[entry_name].append(row); a list of [entry, rows] in insertion
\* order, as the dict iterates
batch_append(batches, entry, row) ==
    IF \E i \in 1..Len(batches) : batches[i].entry = entry
    THEN [i \in 1..Len(batches) |->
            IF batches[i].entry = entry
            THEN [batches[i] EXCEPT !.rows = Append(@, row)]
            ELSE batches[i]]
    ELSE Append(batches, [entry |-> entry, rows |-> <<row>>])

batch_rows(batches, entry) ==
    LET i == CHOOSE i \in 1..Len(batches) : batches[i].entry = entry
    IN  batches[i].rows

\* variant: the batch is written and not emptied
batch_clear_keep(batches, entry) == batches

\* json_batches[entry_name] = []
batch_clear(batches, entry) ==
    [i \in 1..Len(batches) |->
        IF batches[i].entry = entry THEN [batches[i] EXCEPT !.rows = << >>]
        ELSE batches[i]]

\* the non-empty batches, in iteration order
batch_pending(batches) == SelectSeq(batches, LAMBDA b : b.rows # << >>)

RobotConfigs ==
    {[ALLOWED_IMAGE_TOPICS |-> {TopicImage},
      ALLOWED_POINTCLOUD_TOPICS |-> {TopicPoints},
      ALLOWED_CAMERA_INFO_TOPICS |-> {},
      SAVE_IMAGES |-> TRUE,
      SAVE_POINTCLOUD2 |-> TRUE,
      SAVE_OTHER_AS_JSON |-> TRUE,
      SAVE_TF |-> FALSE,
      TARGET_IMAGE_HZ |-> hz,
      TARGET_POINTCLOUD_HZ |-> 1,
      JSON_BATCH_SIZE |-> 2,
      CLIP_SECONDS |-> 1,
      SESSION_DURATION_SECONDS |-> 2,
      SESSION_INTERVAL_SECONDS |-> 2,
      START_NS |-> TimeStepNs,
      END_NS |-> TimeStepNs + 2 * NsPerSec] :
        hz \in {0, 2 * HzDen, 10 * HzDen}}

\* the timestamps read_next may yield next: as for mcap.py, and a clip that
\* lasts longer than CLIP_SECONDS
RobotClipDeltas == ClipDeltas \cup {NsPerSec + TimeStepNs}

RobotNextTs(msgs) ==
    IF msgs = << >> THEN ClipFirstTs
    ELSE {msgs[Len(msgs)].t_ns + delta : delta \in RobotClipDeltas}

\* bucket.get_entry_list() when the run starts: the entries of an earlier run
RobotStaleEntries == {<< >>, <<IMAGE_ENTRY, <<"mcap">>>>}

RobotStart(cfg) ==
    [on |-> TRUE, cfg |-> cfg, msgs |-> << >>, first_ts_ns |-> NoTs, last_ts_ns |-> NoTs,
     clip_dur_ns |-> 0, throttle_ratios |-> << >>, session_starts_ns |-> << >>,
     loops_per_session |-> 0, image_msg_counters |-> << >>, pc_msg_counters |-> << >>,
     s_idx |-> 0, session_end_ns |-> NoTs, loop_i |-> 0, m_idx |-> 1,
     json_batches |-> << >>, total_images |-> 0, total_pc |-> 0, total_json_rows |-> 0,
     records |-> << >>, batches |-> << >>]

InitRobot ==
    /\ pc = "robot_read"
    /\ exc = ""
    /\ last_us = << >>
    /\ allocs = << >>
    /\ writes = << >>
    /\ rate = RateIdle
    /\ direct = DirectIdle
    /\ mcap = McapIdle
    /\ \E cfg \in RobotConfigs : robot = RobotStart(cfg)
    /\ filt = FilterIdle
    /\ labels = LabelsIdle
    /\ resets = << >>
    /\ charm = CharmIdle

\* lines 415-421: one message of the clip is read
RobotRead ==
    /\ pc = "robot_read"
    /\ Len(robot.msgs) < MaxClipMsgs
    /\ \E topic \in DOMAIN RobotTopicTypes, t_ns \in RobotNextTs(robot.msgs) :
         \E payload \in RobotPayloads(topic) :
           robot' = [robot EXCEPT
                      !.msgs = Append(@, [topic |-> topic, t_ns |-> t_ns,
                                          payload |-> payload]),
                      !.first_ts_ns = IF @ = NoTs THEN t_ns ELSE @,
                      !.last_ts_ns = t_ns]
    /\ UNCHANGED <<pc, exc, last_us, allocs, writes, rate, direct, mcap, filt, labels, resets, charm>>

(* lines 428-506: an empty clip ends the run; otherwise the clip's duration,
   the throttle ratios, the session schedule and the loops per session are
   computed and the bucket is cleared. *)
RobotPrepare ==
    /\ pc = "robot_read"
    /\ LET dur_ns == clip_dur_ns(robot.cfg, robot.first_ts_ns, robot.last_ts_ns)
           counts == robot_topic_msg_counts(robot.cfg, robot.msgs)
       IN  IF robot.msgs = << >>
           THEN /\ pc' = "done"
                /\ UNCHANGED <<exc, robot, resets, charm>>
           ELSE IF robot_ratios_raise(robot.cfg, counts, dur_ns)
           THEN /\ pc' = "raised"
                /\ exc' = "ZeroDivisionError"
                /\ UNCHANGED <<robot, resets, charm>>
           ELSE /\ pc' = "robot_session"
                /\ exc' = exc
                /\ \E stale \in RobotStaleEntries :
                     resets' = clear_bucket(resets, stale, writes)
                /\ robot' = [robot EXCEPT
                      !.clip_dur_ns = dur_ns,
                      !.throttle_ratios = robot_throttle_ratios(robot.cfg, counts, dur_ns),
                      !.session_starts_ns =
                          build_session_starts(robot.cfg.START_NS, robot.cfg.END_NS,
                                               robot.cfg.SESSION_INTERVAL_SECONDS),
                      !.loops_per_session = loops_per_session(robot.cfg)]
    /\ UNCHANGED <<last_us, allocs, writes, rate, direct, mcap, filt, labels, charm>>

\* lines 517-539: the next session starts with empty JSON batches
RobotSession ==
    /\ pc = "robot_session"
    /\ robot.s_idx < Len(robot.session_starts_ns)
    /\ robot' = [robot EXCEPT
          !.session_end_ns = robot.session_starts_ns[robot.s_idx + 1]
                             + robot.cfg.SESSION_DURATION_SECONDS * NsPerSec,
          !.json_batches = << >>,
          !.loop_i = 0,
          !.m_idx = 1]
    /\ pc' = "robot_msg"
    /\ UNCHANGED <<exc, last_us, allocs, writes, rate, direct, mcap, filt, labels, resets, charm>>

\* the position after message m_idx of loop loop_i, or after a break
robot_advance(r, broke) ==
    IF broke \/ r.m_idx = Len(r.msgs)
    THEN [r EXCEPT !.loop_i = @ + 1, !.m_idx = 1]
    ELSE [r EXCEPT !.m_idx = @ + 1]

robot_pc(r) == IF r.loop_i >= r.loops_per_session THEN "robot_flush" ELSE "robot_msg"

\* ts_alloc.alloc_us(entry, ts_ns) followed by write_record_us(entry, ..., ts_us),
\* which the sink answers with resp
AllocAndWrite(entry, ts_ns, resp) ==
    /\ AllocStep(entry, ts_ns)
    /\ writes' = Append(writes, Answered(entry, alloc_us(last_us, entry, ts_ns), resp))

(* lines 544-681: one iteration of "for topic, cdr_bytes, t_ns, topic_type in
   msgs".  At most one record is written; any error of the sink, a 409
   included, leaves main as an exception. *)
RobotMessage ==
    /\ pc = "robot_msg"
    /\ LET cfg == robot.cfg
           m == robot.msgs[robot.m_idx]
           topic == m.topic
           topic_type == RobotTopicTypes[topic]
           s_start == robot.session_starts_ns[robot.s_idx + 1]
           loop_off_ns == robot.loop_i * robot.clip_dur_ns
           ts_out_ns == s_start + loop_off_ns + (m.t_ns - robot.first_ts_ns)
           decoded == m.payload # "bad"
           pos == <<robot.s_idx, robot.loop_i, robot.m_idx>>
           as_json == cfg.SAVE_OTHER_AS_JSON /\ decoded
                      /\ robot_flatten_row(cfg, topic, topic_type)
           as_pc == /\ cfg.SAVE_POINTCLOUD2
                    /\ EndsWith(topic_type, TypePointCloud2)
                    /\ topic \in cfg.ALLOWED_POINTCLOUD_TOPICS
                    /\ decoded /\ has_data(topic_type)
           as_image == /\ cfg.SAVE_IMAGES
                       /\ topic \in cfg.ALLOWED_IMAGE_TOPICS
                       /\ decoded
                       /\ \/ (has_format(topic_type) /\ has_data(topic_type))
                          \/ (EndsWith(topic_type, TypeCompressedImage) /\ has_data(topic_type))
           throttle_ratio_ == Get(robot.throttle_ratios, topic, 1)
           \* the iteration ends without a write
           finish(r) ==
               /\ robot' = robot_advance(r, FALSE)
               /\ pc' = robot_pc(robot_advance(r, FALSE))
               /\ UNCHANGED <<exc, last_us, allocs, writes, charm>>
           \* the iteration ends with one write
           write_and_finish(r, entry, ts_ns) ==
               \E sink \in {"ok", "409", "error"} :
                   /\ AllocAndWrite(entry, ts_ns, sink)
                   /\ IF sink = "ok"
                      THEN /\ robot' = robot_advance(r, FALSE)
                           /\ pc' = robot_pc(robot_advance(r, FALSE))
                           /\ exc' = exc
                      ELSE /\ robot' = robot
                           /\ pc' = "raised"
                           /\ exc' = IF sink = "409" THEN "ReductError409" ELSE "ReductError"
       IN  IF ts_out_ns > robot.session_end_ns
           THEN \* break
                /\ robot' = robot_advance(robot, TRUE)
                /\ pc' = robot_pc(robot_advance(robot, TRUE))
                /\ UNCHANGED <<exc, last_us, allocs, writes, charm>>
           ELSE IF ~cfg.SAVE_TF /\ is_tf_type(topic_type)
           THEN finish(robot)
           ELSE IF as_json
           THEN LET entry_name == get_json_entry_name(topic)
                    row == [ts_ns |-> ts_out_ns, topic |-> topic, pos |-> pos]
                    appended == batch_append(robot.json_batches, entry_name, row)
                    rows == batch_rows(appended, entry_name)
                    r1 == [robot EXCEPT !.total_json_rows = @ + 1]
                IN  IF Len(rows) >= cfg.JSON_BATCH_SIZE
                    THEN write_and_finish(
                             [r1 EXCEPT
                                !.json_batches = batch_clear(appended, entry_name),
                                !.batches = Append(@, [entry |-> entry_name,
                                                       rows |-> rows,
                                                       s_idx |-> robot.s_idx])],
                             entry_name, rows[Len(rows)].ts_ns)
                    ELSE finish([r1 EXCEPT !.json_batches = appended])
           ELSE IF as_pc
           THEN LET n == Get(robot.pc_msg_counters, topic, 0) + 1
                    r1 == [robot EXCEPT !.pc_msg_counters = Put(@, topic, n)]
                IN  IF ~throttle_keep(n, throttle_ratio_)
                    THEN finish(r1)
                    ELSE write_and_finish(
                             [r1 EXCEPT
                                !.total_pc = @ + 1,
                                !.records = Append(@, [entry |-> POINTCLOUD_ENTRY,
                                                       topic |-> topic,
                                                       ts_ns |-> ts_out_ns,
                                                       pos |-> pos])],
                             POINTCLOUD_ENTRY, ts_out_ns)
           ELSE IF as_image
           THEN LET n == Get(robot.image_msg_counters, topic, 0) + 1
                    r1 == [robot EXCEPT !.image_msg_counters = Put(@, topic, n)]
                IN  IF ~throttle_keep(n, throttle_ratio_) \/ m.payload = "raw"
                    THEN finish(r1)
                    ELSE write_and_finish(
                             [r1 EXCEPT
                                !.total_images = @ + 1,
                                !.records = Append(@, [entry |-> IMAGE_ENTRY,
                                                       topic |-> topic,
                                                       ts_ns |-> ts_out_ns,
                                                       pos |-> pos])],
                             IMAGE_ENTRY, ts_out_ns)
           ELSE finish(robot)
    /\ UNCHANGED <<rate, direct, mcap, filt, labels, resets, charm>>

\* the allocations and writes of the batches bs, one after the other
RECURSIVE flush_writes(_, _)
flush_writes(bs, lu) ==
    IF bs = << >> THEN << >>
    ELSE LET b == Head(bs)
             ts_us == alloc_us(lu, b.entry, b.rows[Len(b.rows)].ts_ns)
         IN  <<[entry |-> b.entry, ts_ns |-> b.rows[Len(b.rows)].ts_ns, ret |-> ts_us]>>
             \o flush_writes(Tail(bs), alloc_store(lu, b.entry, ts_us))

RECURSIVE flush_store(_, _)
flush_store(ws, lu) ==
    IF ws = << >> THEN lu
    ELSE flush_store(Tail(ws), alloc_store(lu, Head(ws).entry, Head(ws).ret))

(* lines 683-690: the remaining JSON batches of the session are written, in
   the order of the dict.  fail = 0: no write raises; fail = k: the k-th write
   is answered with bad and raises. *)
RobotFlush ==
    /\ pc = "robot_flush"
    /\ LET pending == batch_pending(robot.json_batches)
           ws == flush_writes(pending, last_us)
       IN  \E fail \in 0..Len(ws), bad \in {"409", "error"} :
             LET done == IF fail = 0 THEN ws ELSE SubSeq(ws, 1, fail)
                 flushed == IF fail = 0 THEN pending ELSE SubSeq(pending, 1, fail - 1)
             IN  /\ allocs' = allocs \o done
                 /\ last_us' = flush_store(done, last_us)
                 /\ writes' = writes \o [i \in 1..Len(done) |->
                                           Answered(done[i].entry, done[i].ret,
                                                    IF i = fail THEN bad ELSE "ok")]
                 /\ robot' = [robot EXCEPT
                       !.batches = @ \o [i \in 1..Len(flushed) |->
                                           [entry |-> flushed[i].entry,
                                            rows |-> flushed[i].rows,
                                            s_idx |-> robot.s_idx]],
                       !.s_idx = IF fail = 0 THEN @ + 1 ELSE @]
                 /\ pc' = IF fail = 0 THEN "robot_session" ELSE "raised"
                 /\ exc' = IF fail = 0 THEN exc
                           ELSE IF bad = "409" THEN "ReductError409" ELSE "ReductError"
    /\ UNCHANGED <<rate, direct, mcap, filt, labels, resets, charm>>

\* lines 692-700: every session is done
RobotDone ==
    /\ pc = "robot_session"
    /\ robot.s_idx = Len(robot.session_starts_ns)
    /\ pc' = "done"
    /\ UNCHANGED <<exc, last_us, allocs, writes, rate, direct, mcap, robot, filt, labels, resets, charm>>

NextRobot ==
    RobotRead \/ RobotPrepare \/ RobotSession \/ RobotMessage \/ RobotFlush \/ RobotDone

SpecRobot == InitRobot /\ [][NextRobot]_vars

\* both looped-replay programs
InitLooped == InitMcap \/ InitRobot

SpecLooped == InitLooped /\ [][NextMcap \/ NextRobot]_vars

----------------------------------------------------------------------------
(* C3: in the looped-replay programs every sink write for an entry is issued
   right after its allocation and before the next allocation for that entry,
   so over a whole run (all sessions, loops and JSON batches) the timestamps
   passed to bucket.write for one entry are strictly increasing in the order
   of the writes. *)
C3_LoopedWritesIncreasing ==
    (mcap.on \/ robot.on) =>
        /\ Len(writes) = Len(allocs)
        /\ \A i \in 1..Len(writes) :
               writes[i].entry = allocs[i].entry /\ writes[i].ts = allocs[i].ret
        /\ \A e \in WrittenEntries : WritesIncreasing(e)

\* a finished robot.py run that wrote a JSON batch and, on one entry, a record
\* whose event time fell into the microsecond of the record before it
C3_Witness ==
    /\ robot.on
    /\ pc = "done"
    /\ robot.batches # << >>
    /\ \E i, j \in 1..Len(allocs) :
          /\ i < j
          /\ allocs[i].entry = IMAGE_ENTRY /\ allocs[j].entry = IMAGE_ENTRY
          /\ allocs[i].ts_ns \div NsPerUs = allocs[j].ts_ns \div NsPerUs

(* C6: when the target rate configured for a category (image or point cloud)
   is 0, no message of any channel of that category is emitted by the run. *)
C6_ZeroTargetEmitsNothing ==
    mcap.on =>
        \A k \in 1..Len(mcap.episodes) :
            \A n \in 1..Len(mcap.episodes[k].msgs) :
                LET topic_type == ClipTopicTypes[mcap.episodes[k].msgs[n].topic]
                IN  /\ is_image_type(topic_type) => mcap.cfg.TARGET_IMAGE_HZ # 0
                    /\ EndsWith(topic_type, TypePointCloud2)
                           => mcap.cfg.TARGET_POINTCLOUD_HZ # 0

(* C8: in mcap.py every message written into an episode has a remapped
   timestamp new_ts_ns with episode_start_ns <= new_ts_ns < episode_start_ns +
   EPISODE_DURATION, whatever the span of the clip and the episode index. *)
C8_McapEpisodeWithinWindow ==
    mcap.on =>
        \A k \in 1..Len(mcap.episodes) :
            \A n \in 1..Len(mcap.episodes[k].msgs) :
                /\ mcap.episodes[k].start_ns <= mcap.episodes[k].msgs[n].ts_ns
                /\ mcap.episodes[k].msgs[n].ts_ns < mcap.episodes[k].end_ns


\* the episodes written for session k (0-based), in the order they were written
SessionEpisodes(k) == SelectSeq(mcap.episodes, LAMBDA ep : ep.s_idx = k)

(* C11: in mcap.py, for a session duration S and an episode duration E with
   E <= S, every session that was run to its end holds exactly floor(S/E)
   episodes; episode i starts at session_start + i*E and ends no later than
   the session; a 600-second session of 30-second episodes holds exactly 20;
   the windows of the episodes of one session do not overlap. *)
C11_EpisodesPerSession ==
    (mcap.on /\ mcap.cfg.EPISODE_DURATION_SECONDS <= mcap.cfg.SESSION_DURATION_SECONDS) =>
        LET S == mcap.cfg.SESSION_DURATION_SECONDS
            E == mcap.cfg.EPISODE_DURATION_SECONDS
        IN  /\ \A k \in 0..(mcap.s_idx - 1) :
                   /\ Len(SessionEpisodes(k)) = S \div E
                   /\ (S = 600 /\ E = 30) => Len(SessionEpisodes(k)) = 20
            /\ \A k \in 0..(Len(mcap.session_starts_ns) - 1) :
                   LET eps == SessionEpisodes(k)
                       s_start == mcap.session_starts_ns[k + 1]
                   IN  /\ \A n \in 1..Len(eps) :
                              /\ eps[n].episode_i = n - 1
                              /\ eps[n].start_ns = s_start + (n - 1) * E * NsPerSec
                              /\ eps[n].end_ns = eps[n].start_ns + E * NsPerSec
                              /\ eps[n].end_ns <= s_start + S * NsPerSec
                       /\ \A n, m \in 1..Len(eps) :
                              n < m => eps[n].end_ns <= eps[m].start_ns

\* a finished run of two 600-second sessions of 30-second episodes
C11_Witness ==
    /\ mcap.on
    /\ pc = "done"
    /\ mcap.cfg.SESSION_DURATION_SECONDS = 600
    /\ mcap.cfg.EPISODE_DURATION_SECONDS = 30
    /\ mcap.s_idx = 2
    /\ Len(mcap.episodes) = 40

(* C12: in mcap.py closing an episode issues exactly one write, to the single
   episodes entry; when sessions do not overlap (session interval >= session
   duration) the timestamp of that write is floor(episode_start_ns / 1000):
   the allocator never nudges an episode timestamp. *)
C12_OneWritePerEpisode ==
    mcap.on =>
        /\ Len(writes) = Len(mcap.episodes) + (IF pc = "raised" /\ exc # "ZeroDivisionError"
                                               THEN 1 ELSE 0)
        /\ \A i \in 1..Len(writes) : writes[i].entry = mcap.cfg.ENTRY_NAME
        /\ \A i \in 1..Len(mcap.episodes) :
               allocs[i].ts_ns = mcap.episodes[i].start_ns /\ writes[i].ts = allocs[i].ret
        /\ mcap.cfg.SESSION_INTERVAL_SECONDS >= mcap.cfg.SESSION_DURATION_SECONDS =>
               \A i \in 1..Len(writes) : writes[i].ts = allocs[i].ts_ns \div NsPerUs

\* a finished run of two sessions that follow each other without a gap, two
\* episodes each, whose start times are not whole microseconds
C12_Witness ==
    /\ mcap.on
    /\ pc = "done"
    /\ mcap.cfg.SESSION_INTERVAL_SECONDS = mcap.cfg.SESSION_DURATION_SECONDS
    /\ Len(mcap.episodes) = 4
    /\ \A i \in 1..4 : mcap.episodes[i].start_ns % NsPerUs # 0

----------------------------------------------------------------------------
(* The three programs side by side: a run is a run of one of them *)

InitAll == InitDirect \/ InitMcap \/ InitRobot

NextAll == NextDirect \/ NextMcap \/ NextRobot

SpecAll == InitAll /\ [][NextAll]_vars

(* C13: in every pipeline a duplicate-timestamp (409) answer of the sink to a
   write is not an error: it does not end the run, and processing goes on
   with the next message or record. *)
C13_DuplicateNotFatal ==
    \A i \in 1..Len(writes) :
        writes[i].resp = "409" => ~(pc = "raised" /\ i = Len(writes))

(* C14: a sink failure other than 409 is fatal for the run: it leaves main as
   an exception, the write is not issued again and no record is written after
   it. *)
C14_OtherErrorFatal ==
    /\ \A i \in 1..Len(writes) :
           writes[i].resp = "error" =>
               /\ i = Len(writes)
               /\ pc = "raised"
               /\ exc = "ReductError"
    /\ exc = "ReductError" =>
           /\ pc = "raised"
           /\ writes # << >> /\ writes[Len(writes)].resp = "error"

\* a direct replay that went on after a 409 and was ended by an error of a
\* later write
C14_Witness ==
    /\ direct.on
    /\ exc = "ReductError"
    /\ \E i \in 1..(Len(writes) - 1) : writes[i].resp = "409"
    /\ writes[Len(writes)].resp = "error"

\* the clip message a JSON row of robot.py was made from
RowMsg(row) == robot.msgs[row.pos[3]]

(* C15: a decode failure for a single message does not end the run: the
   message is left out of the structured (JSON/CSV) output, is still part of
   the raw / episode output, and the messages after it are processed. *)
C15_DecodeFailureNotFatal ==
    /\ exc # "DecodeError"
    /\ robot.on =>
           \A b \in 1..Len(robot.batches) :
               \A r \in 1..Len(robot.batches[b].rows) :
                   RowMsg(robot.batches[b].rows[r]).payload # "bad"
    /\ direct.on =>
           \A i \in direct.undecoded :
               \E k \in 1..Len(AllEpisodeMsgs) : AllEpisodeMsgs[k] = i

\* a channel is allow-listed for two mutually exclusive categories
Contradictory(cfg) ==
    cfg.ALLOWED_IMAGE_TOPICS \cap cfg.ALLOWED_POINTCLOUD_TOPICS # {}

(* C16: with a contradictory configuration (a channel in both the image and
   the point-cloud allow-list) the run fails at startup: the destination is
   not cleared, no episode is opened and no record is written. *)
C16_ContradictoryConfigFailsFast ==
    (mcap.on /\ Contradictory(mcap.cfg)) =>
        /\ pc \in {"mcap_read", "raised", "done"}
        /\ mcap.session_starts_ns = << >>
        /\ mcap.episodes = << >>
        /\ writes = << >>

----------------------------------------------------------------------------
(* The topic filters of mcap.py, applied to one topic of one configuration *)

TopicCameraInfo == <<"/", "camera", "/", "camera_info">>
TopicLidarImage == <<"/", "front", "LiDAR", "/", "image">>
TopicLidarPoints == <<"/", "os", "_", "node", "/", "points">>

FilterTopics ==
    {TopicImage, TopicImu, TopicPoints, TopicCameraInfo, TopicLidarImage, TopicLidarPoints,
     <<"/", "base", "_", "Scan">>, <<"/", "odom">>}

FilterTypes ==
    {TypePointCloud2, TypeImage, TypeCompressedImage, TypeCameraInfo, TypeImu, TypeTF,
     <<"nav_msgs/", "msg/", "Odometry">>,
     <<"sensor_msgs/", "msg/", "LaserScan">>,
     <<"diagnostic_msgs/", "msg/", "DiagnosticArray">>}

\* the allow-lists of a Config: empty, or holding a plain and a LiDAR-named topic
FilterConfigs ==
    {[McapConfig(10 * HzDen, 2, 1, 2, 2) EXCEPT
        !.ALLOWED_IMAGE_TOPICS = img,
        !.ALLOWED_POINTCLOUD_TOPICS = pcl,
        !.ALLOWED_CAMERA_INFO_TOPICS = cam] :
        img \in {{}, {TopicImage, TopicLidarImage}},
        pcl \in {{}, {TopicPoints, TopicLidarPoints}},
        cam \in {{}, {TopicCameraInfo}}}

InitFilter ==
    /\ pc = "filter"
    /\ exc = ""
    /\ last_us = << >>
    /\ allocs = << >>
    /\ writes = << >>
    /\ rate = RateIdle
    /\ direct = DirectIdle
    /\ mcap = McapIdle
    /\ robot = RobotIdle
    /\ labels = LabelsIdle
    /\ resets = << >>
    /\ charm = CharmIdle
    /\ \E cfg \in FilterConfigs, topic \in FilterTopics, topic_type \in FilterTypes :
         filt = [on |-> TRUE, cfg |-> cfg, topic |-> topic, topic_type |-> topic_type,
                 include |-> FALSE, downsample |-> FALSE]

\* should_include_topic and should_downsample_topic are evaluated for the topic
FilterApply ==
    /\ pc = "filter"
    /\ filt' = [filt EXCEPT
          !.include = should_include_topic(filt.cfg, filt.topic, filt.topic_type),
          !.downsample = should_downsample_topic(filt.cfg, filt.topic, filt.topic_type)]
    /\ pc' = "done"
    /\ UNCHANGED <<exc, last_us, allocs, writes, rate, direct, mcap, robot, labels, resets, charm>>

NextFilter == FilterApply

SpecFilter == InitFilter /\ [][NextFilter]_vars

\* the filters were evaluated
Filtered == filt.on /\ pc = "done"

\* the lower-cased name of the topic contains a denylisted pattern
Denylisted == \E p \in LidarPatterns : Contains(LowerSeq(filt.topic), p)

\* the type of the topic is one of the essential structured categories
Essential == \E p \in EssentialPatterns : Contains(filt.topic_type, p)

(* C17: should_include_topic excludes every channel whose name contains a
   denylisted pattern, in any letter case, whatever its type and even when
   the channel is in an allow-list. *)
C17_DenylistWins ==
    (Filtered /\ Denylisted) => ~filt.include

\* an allow-listed image channel whose name holds "LiDAR" was filtered
C17_Witness ==
    /\ Filtered
    /\ filt.topic = TopicLidarImage
    /\ filt.topic \in filt.cfg.ALLOWED_IMAGE_TOPICS
    /\ is_image_type(filt.topic_type)

(* C18: a channel of type PointCloud2 is excluded unless it is in
   ALLOWED_POINTCLOUD_TOPICS; when it is, and its name is not denylisted, it
   is included. *)
C18_PointCloudAllowList ==
    (Filtered /\ EndsWith(filt.topic_type, TypePointCloud2)) =>
        /\ filt.topic \notin filt.cfg.ALLOWED_POINTCLOUD_TOPICS => ~filt.include
        /\ (filt.topic \in filt.cfg.ALLOWED_POINTCLOUD_TOPICS /\ ~Denylisted) => filt.include

(* C19 as stated: a channel of an image type is included if and only if it is
   in ALLOWED_IMAGE_TOPICS and its name is not denylisted; a channel that
   matches none of the denylist, heavy, essential or image rules is
   excluded. *)
C19_ImageAllowListOnly ==
    Filtered =>
        /\ is_image_type(filt.topic_type) =>
               (filt.include <=> (filt.topic \in filt.cfg.ALLOWED_IMAGE_TOPICS /\ ~Denylisted))
        /\ (/\ ~Denylisted
            /\ ~EndsWith(filt.topic_type, TypePointCloud2)
            /\ ~Essential
            /\ ~is_image_type(filt.topic_type)) => ~filt.include

(* C19 amended: a channel of an image type is included if and only if it is
   in ALLOWED_IMAGE_TOPICS and its name is not denylisted; a channel of type
   CameraInfo is included if and only if it is in ALLOWED_CAMERA_INFO_TOPICS
   and its name is not denylisted; a channel that matches none of the
   denylist, heavy, essential, image or camera-info rules is excluded. *)
C19_ImageAndCameraInfoAllowLists ==
    Filtered =>
        /\ is_image_type(filt.topic_type) =>
               (filt.include <=> (filt.topic \in filt.cfg.ALLOWED_IMAGE_TOPICS /\ ~Denylisted))
        /\ EndsWith(filt.topic_type, TypeCameraInfo) =>
               (filt.include <=>
                   (filt.topic \in filt.cfg.ALLOWED_CAMERA_INFO_TOPICS /\ ~Denylisted))
        /\ (/\ ~Denylisted
            /\ ~EndsWith(filt.topic_type, TypePointCloud2)
            /\ ~Essential
            /\ ~is_image_type(filt.topic_type)
            /\ ~EndsWith(filt.topic_type, TypeCameraInfo)) => ~filt.include

\* an allow-listed camera-info channel was filtered and included
C19_Witness ==
    /\ Filtered
    /\ filt.topic = TopicCameraInfo
    /\ EndsWith(filt.topic_type, TypeCameraInfo)
    /\ filt.topic \in filt.cfg.ALLOWED_CAMERA_INFO_TOPICS
    /\ filt.include

(***************************************************************************)
(* The labels of one mcap.py episode record.  A label set is a function    *)
(* from key to the group that wrote the value last: a dict keeps the value *)
(* of the later write, so f @@ g below has the later writer f on the left. *)
(***************************************************************************)

\* the optional synthetic metrics, each attached under its own random draw
OptionalMetrics ==
    {"vibration_level", "safety_score", "obstacle_dist_cm", "speed_scaled",
     "ai_confidence", "wifi_dbm", "zone", "event_severity", "vision_confidence"}

\* the keys one optional metric writes
MetricKeys(m) ==
    CASE m = "vibration_level"   -> {"max_vibration_level"}
      [] m = "safety_score"      -> {"max_safety_score"}
      [] m = "obstacle_dist_cm"  -> {"max_obstacle_dist_cm"}
      [] m = "speed_scaled"      -> {"max_speed_scaled"}
      [] m = "ai_confidence"     -> {"max_ai_confidence"}
      [] m = "wifi_dbm"          -> {"max_wifi_dbm"}
      [] m = "zone"              -> {"max_zone_risk", "zone_type"}
      [] m = "event_severity"    -> {"max_event_severity"}
      [] m = "vision_confidence" -> {"max_vision_confidence"}

session_context ==
    [k \in {"robot", "run_id", "state_id", "mission_id", "operator_id", "site", "shift"} |->
        "context"]

\* n is len(msgs): the dominant type is reported only when a type was counted
calculate_episode_stats(n) ==
    [k \in {"total_messages", "total_topics", "duration_seconds", "max_messages_per_topic",
            "max_bytes_per_topic", "max_topic_frequency_hz", "total_bytes", "max_bytes",
            "avg_message_size"}
           \cup (IF n > 0 THEN {"max_topic_type", "max_topic_type_count"} ELSE {}) |->
        "statistic"]

\* the keys main writes itself
fixed_labels ==
    [k \in {"episode_index", "session_index", "format", "duration_target_seconds"} |-> "fixed"]

\* the dict literal of main: context, then statistics, then the fixed keys
episode_labels(n) == fixed_labels @@ calculate_episode_stats(n) @@ session_context

\* a variant whose first core metric is written under a statistic's key
sprinkle_incidents_aggregated_clash(ls, drawn) ==
    [k \in {"max_bytes", "max_cpu_temp_c", "max_memory_pct", "max_net_latency_ms"}
           \cup UNION {MetricKeys(m) : m \in drawn} |-> "synthetic"] @@ ls

sprinkle_incidents_aggregated(ls, drawn) ==
    [k \in {"max_battery_pct", "max_cpu_temp_c", "max_memory_pct", "max_net_latency_ms"}
           \cup UNION {MetricKeys(m) : m \in drawn} |-> "synthetic"] @@ ls

\* the inputs of one episode's labels: the message count and the random draws
InitLabels ==
    /\ pc = "labels"
    /\ exc = ""
    /\ last_us = << >>
    /\ allocs = << >>
    /\ writes = << >>
    /\ rate = RateIdle
    /\ direct = DirectIdle
    /\ mcap = McapIdle
    /\ robot = RobotIdle
    /\ filt = FilterIdle
    /\ \E n \in 1..MaxClipMsgs, drawn \in SUBSET OptionalMetrics :
         labels = [on |-> TRUE, n |-> n, drawn |-> drawn, dict |-> << >>]
    /\ resets = << >>
    /\ charm = CharmIdle

\* main builds the labels of the episode and hands them to the writer
LabelsCompose ==
    /\ pc = "labels"
    /\ labels' = [labels EXCEPT
          !.dict = sprinkle_incidents_aggregated(episode_labels(labels.n), labels.drawn)]
    /\ pc' = "done"
    /\ UNCHANGED <<exc, last_us, allocs, writes, rate, direct, mcap, robot, filt, resets, charm>>

NextLabels == LabelsCompose

SpecLabels == InitLabels /\ [][NextLabels]_vars

\* the labels of an episode were composed
Labelled == labels.on /\ pc = "done"

\* the keys the synthetic step writes for the draws of the state
SyntheticKeys ==
    {"max_battery_pct", "max_cpu_temp_c", "max_memory_pct", "max_net_latency_ms"}
        \cup UNION {MetricKeys(m) : m \in labels.drawn}

\* C20: the context, statistic, fixed and synthetic keys of a record are
\* pairwise disjoint, so every key of the record still holds the value of the
\* group it belongs to: no merge step overwrote an earlier one
C20_LabelGroupsDisjoint ==
    Labelled =>
        LET ctx == DOMAIN session_context
            stats == DOMAIN calculate_episode_stats(labels.n)
            fixed == DOMAIN fixed_labels
            synth == SyntheticKeys
        IN  /\ ctx \cap stats = {} /\ ctx \cap fixed = {} /\ ctx \cap synth = {}
            /\ stats \cap fixed = {} /\ stats \cap synth = {} /\ fixed \cap synth = {}
            /\ DOMAIN labels.dict = ctx \cup stats \cup fixed \cup synth
            /\ \A k \in ctx : labels.dict[k] = "context"
            /\ \A k \in stats : labels.dict[k] = "statistic"
            /\ \A k \in fixed : labels.dict[k] = "fixed"
            /\ \A k \in synth : labels.dict[k] = "synthetic"

\* a record's labels were composed with every optional metric drawn
C20_Witness ==
    /\ Labelled
    /\ labels.drawn = OptionalMetrics
    /\ "zone_type" \in DOMAIN labels.dict
    /\ "max_bytes" \in DOMAIN labels.dict

----------------------------------------------------------------------------
(* C21: in each of the three programs the bucket is cleared once per run and
   before the first record is written: no clear_bucket call, and so no
   remove_entry call, is issued once a write was issued, and every write is
   preceded by the one clearing of the run. *)
C21_ResetOnceBeforeWrites ==
    /\ Len(resets) <= 1
    /\ \A i \in 1..Len(resets) : resets[i].writes_before = 0
    /\ writes # << >> => Len(resets) = 1

\* a run of robot.py that removed the entries of an earlier run and then wrote
\* two records
C21_Witness ==
    /\ robot.on
    /\ Len(resets) = 1
    /\ resets[1].removed = <<IMAGE_ENTRY, <<"mcap">>>>
    /\ Len(writes) >= 2

----------------------------------------------------------------------------
(* The Kubernetes charm: reductstore-k8s/src/charm.py

   One action per observed event.  A log level is one token, a path and a URL
   are sequences of tokens ("/", "://", "?", "#" and words), on which lower,
   upper, startswith, endswith, rstrip, urlsplit and urlunsplit act as on the
   characters of the source's strings. *)

\* variant: every level is accepted
VALID_LOG_LEVELS_any == {"info", "debug", "warning", "error", "critical", "foobar", "trace"}

VALID_LOG_LEVELS == {"info", "debug", "warning", "error", "critical"}

\* str.lower() of a log level
level_lower(tok) ==
    CASE tok = "Debug" -> "debug"
      [] tok = "ERROR" -> "error"
      [] tok = "FooBar" -> "foobar"
      [] OTHER -> tok

\* str.upper() of a log level
level_upper(tok) ==
    CASE tok = "info" -> "INFO"
      [] tok = "Debug" -> "DEBUG"
      [] tok = "FooBar" -> "FOOBAR"
      [] tok = "trace" -> "TRACE"
      [] OTHER -> tok

ModelName == "test-model"
AppName == "reductstore-k8s"

\* variant: the api-base-path is used as it is configured
api_base_path_raw(config) ==
    IF config.api_base_path # << >> THEN config.api_base_path
    ELSE <<"/", ModelName, "-", AppName>>

\* _api_base_path: the configured path or the default, with a leading "/" and
\* without one trailing "/"
api_base_path(config) ==
    LET configured == IF config.api_base_path # << >> THEN config.api_base_path
                      ELSE <<"/", ModelName, "-", AppName>>
        rooted == IF Head(configured) # "/" THEN <<"/">> \o configured ELSE configured
    IN  IF Len(rooted) > 1 /\ rooted[Len(rooted)] = "/"
        THEN SubSeq(rooted, 1, Len(rooted) - 1)
        ELSE rooted

\* the index of the first token of u that is one of seps, or Len(u) + 1
RECURSIVE FirstOf(_, _, _)
FirstOf(u, seps, i) ==
    IF i > Len(u) \/ u[i] \in seps THEN i ELSE FirstOf(u, seps, i + 1)

\* urlsplit(u) of a URL <<scheme, "://", netloc, path..., "?", query, "#", fragment>>
urlsplit(u) ==
    LET q == FirstOf(u, {"?", "#"}, 4)
        f == FirstOf(u, {"#"}, 4)
    IN  [scheme |-> u[1],
         netloc |-> u[3],
         path |-> SubSeq(u, 4, q - 1),
         query |-> SubSeq(u, q + 1, f - 1),
         fragment |-> SubSeq(u, f + 1, Len(u))]

\* urlunsplit((scheme, netloc, path, "", "")): a path that does not start with
\* "/" gets one
urlunsplit(scheme, netloc, path) ==
    <<scheme, "://", netloc>>
    \o (IF path # << >> /\ Head(path) # "/" THEN <<"/">> \o path ELSE path)

\* _public_ui_url(base_url)
public_ui_url(config, base_url) ==
    LET parts == urlsplit(base_url)
    IN  urlunsplit(parts.scheme, parts.netloc,
                   api_base_path(config) \o <<"/", "ui", "/", "dashboard">>)

\* variant: the UI URL is the ingress URL followed by the dashboard path
external_ui_url_appended(config, ingress_url) ==
    IF ingress_url = << >> THEN << >>
    ELSE ingress_url \o api_base_path(config) \o <<"/", "ui", "/", "dashboard">>

external_ui_url(config, ingress_url) ==
    IF ingress_url = << >> THEN << >> ELSE public_ui_url(config, ingress_url)

\* variant: the API URL is derived from the URL the ingress had last
external_api_url_stale(config, ingress_url) ==
    urlunsplit("http", "example.test", api_base_path(config))

external_api_url(config, ingress_url) ==
    IF ingress_url = << >> THEN << >>
    ELSE LET parts == urlsplit(ingress_url)
         IN  urlunsplit(parts.scheme, parts.netloc, api_base_path(config))

\* s.rstrip("/")
RECURSIVE RStrip(_, _)
RStrip(s, ch) ==
    IF s # << >> /\ s[Len(s)] = ch THEN RStrip(SubSeq(s, 1, Len(s) - 1), ch) ELSE s

\* _catalogue_item: the endpoints are a set of name/URL pairs
catalogue_item(config, ingress_url) ==
    LET api_url == external_api_url(config, ingress_url)
        ui_url == external_ui_url(config, ingress_url)
        ui == IF ui_url # << >> THEN {[name |-> "UI", url |-> ui_url]} ELSE {}
        api == IF api_url # << >>
               THEN {[name |-> "REST API", url |-> api_url],
                     [name |-> "Server Info",
                      url |-> RStrip(api_url, "/") \o <<"/", "api", "/", "v1", "/", "info">>]}
               ELSE {}
    IN  [name |-> "ReductStore", url |-> ui_url, api_endpoints |-> ui \cup api]

\* _pebble_layer: the environment of the reductstore service
pebble_layer(config) ==
    [RS_LOG_LEVEL |-> level_upper(config.log_level),
     RS_PORT |-> "8383",
     RS_DATA_PATH |-> "/data",
     RS_LICENSE_PATH |-> config.license_path,
     RS_API_BASE_PATH |-> api_base_path(config)]

\* the status of a unit that has not set one
UnknownStatus == [name |-> "unknown", message |-> << >>]

ActiveStatus(message) == [name |-> "active", message |-> message]
BlockedStatus(message) == [name |-> "blocked", message |-> message]
\* variant: the unit reports Active while it waits
MaintenanceStatus_active(message) == [name |-> "active", message |-> message]

MaintenanceStatus(message) == [name |-> "maintenance", message |-> message]

\* the configurations of the charm: the defaults of the tests, a full custom
\* one, paths that need normalising, and an invalid level
CharmConfig(log_level, license_path, path) ==
    [log_level |-> log_level, license_path |-> license_path, api_base_path |-> path]

CharmConfigs ==
    {CharmConfig("info", "/reduct.lic", << >>),
     CharmConfig("Debug", "/custom.lic", <<"/", "newbase">>),
     CharmConfig("ERROR", "", <<"newbase", "/">>),
     CharmConfig("FooBar", "/x.lic", <<"/">>),
     CharmConfig("trace", "/x.lic", <<"/", "newbase", "/">>)}

\* the URLs the ingress may hand out
IngressUrls ==
    {<<"http", "://", "example.test", "/">>,
     <<"https", "://", "edge:8443", "/", "old", "?", "x=1", "#", "top">>}

MaxCharmEvents == 3    \* events dispatched to the unit at most

NoItem == [name |-> "", url |-> << >>, api_endpoints |-> {}]

\* the unit after __init__, before any event: ingress_url defaults to ""
CharmStart(config) ==
    [on |-> TRUE, config |-> config, status |-> UnknownStatus,
     ingress_url |-> << >>, was_ready |-> FALSE,
     plan |-> << >>, layers |-> 0, replans |-> 0,
     item |-> NoItem, published |-> 0, deferred |-> 0,
     events |-> 0, event |-> "", can_connect |-> TRUE, url |-> << >>]

InitCharm ==
    /\ pc = "charm"
    /\ exc = ""
    /\ last_us = << >>
    /\ allocs = << >>
    /\ writes = << >>
    /\ rate = RateIdle
    /\ direct = DirectIdle
    /\ mcap = McapIdle
    /\ robot = RobotIdle
    /\ filt = FilterIdle
    /\ labels = LabelsIdle
    /\ resets = << >>
    /\ \E config \in CharmConfigs : charm = CharmStart(config)

\* the bookkeeping of every dispatch
dispatched(c, event, can_connect, url) ==
    [c EXCEPT !.events = @ + 1, !.event = event, !.can_connect = can_connect, !.url = url]

\* container.add_layer(..., combine=True) and container.replan()
apply_layer(c) ==
    [c EXCEPT !.plan = <<pebble_layer(c.config)>>, !.layers = @ + 1, !.replans = @ + 1]

\* self.catalogue.update_item(self._catalogue_item)
update_item(c) ==
    [c EXCEPT !.item = catalogue_item(c.config, c.ingress_url), !.published = @ + 1]

CharmOthersUnchanged ==
    UNCHANGED <<pc, exc, last_us, allocs, writes, rate, direct, mcap, robot, filt, labels, resets>>

\* _on_reductstore_pebble_ready: the event is emitted by a Pebble that answers
OnPebbleReady ==
    /\ pc = "charm"
    /\ charm.events < MaxCharmEvents
    /\ charm' = [apply_layer(dispatched(charm, "pebble-ready", TRUE, << >>)) EXCEPT
                    !.status = ActiveStatus(<< >>)]
    /\ CharmOthersUnchanged

\* _on_config_changed, after the configuration was changed to config
OnConfigChanged ==
    /\ pc = "charm"
    /\ charm.events < MaxCharmEvents
    /\ \E config \in CharmConfigs, can_connect \in BOOLEAN :
         LET c == [dispatched(charm, "config-changed", can_connect, << >>) EXCEPT
                      !.config = config]
             log_level == level_lower(config.log_level)
         IN  charm' =
               IF log_level \notin VALID_LOG_LEVELS
               THEN [c EXCEPT !.status =
                        BlockedStatus(<<"invalid log level: '", log_level, "'">>)]
               ELSE IF ~can_connect
               THEN [c EXCEPT !.status = MaintenanceStatus(<<"waiting for Pebble API">>),
                              !.deferred = @ + 1]
               ELSE update_item([apply_layer(c) EXCEPT !.status = ActiveStatus(<< >>)])
    /\ CharmOthersUnchanged

\* _on_ingress_ready
OnIngressReady ==
    /\ pc = "charm"
    /\ charm.events < MaxCharmEvents
    /\ \E url \in IngressUrls :
         charm' = [update_item([dispatched(charm, "ingress-ready", charm.can_connect, url)
                                   EXCEPT !.ingress_url = url, !.was_ready = TRUE])
                      EXCEPT !.status = ActiveStatus(<<"Ingress at ">> \o url)]
    /\ CharmOthersUnchanged

\* _on_ingress_revoked
OnIngressRevoked ==
    /\ pc = "charm"
    /\ charm.events < MaxCharmEvents
    /\ charm' = [update_item([dispatched(charm, "ingress-revoked", charm.can_connect, << >>)
                                 EXCEPT !.ingress_url = << >>])
                    EXCEPT !.status = MaintenanceStatus(<<"Waiting for ingress">>)]
    /\ CharmOthersUnchanged

NextCharm == OnPebbleReady \/ OnConfigChanged \/ OnIngressReady \/ OnIngressRevoked

SpecCharm == InitCharm /\ [][NextCharm]_vars

----------------------------------------------------------------------------
(* Claims about the charm.  charm.event, charm.can_connect and charm.url name
   the event handled last and its inputs; a primed charm is the unit after the
   handler, an unprimed one the unit before it. *)

\* the configured log level is one of the five valid ones, whatever its case
ValidLevel(c) ==
    level_lower(c.config.log_level) \in {"info", "debug", "warning", "error", "critical"}

\* the event handled last applies a layer under C22
LayerEvent(c) ==
    \/ c.event = "pebble-ready"
    \/ c.event = "config-changed" /\ ValidLevel(c) /\ c.can_connect

\* the api-base-path as it is configured, or the default
ConfiguredPath(c) ==
    IF c.config.api_base_path # << >> THEN c.config.api_base_path
    ELSE <<"/", "test-model", "-", "reductstore-k8s">>

\* a path with a leading "/" added when it has none, and then without its
\* last "/" when more than the "/" is left
NormalisedPath(path) ==
    LET rooted == IF path[1] = "/" THEN path ELSE <<"/">> \o path
        n == Len(rooted)
    IN  IF n > 1 /\ rooted[n] = "/" THEN [i \in 1..(n - 1) |-> rooted[i]] ELSE rooted

\* the environment of the reductstore service with base path path
Environment(c, path) ==
    [RS_LOG_LEVEL |-> level_upper(c.config.log_level),
     RS_PORT |-> "8383",
     RS_DATA_PATH |-> "/data",
     RS_LICENSE_PATH |-> c.config.license_path,
     RS_API_BASE_PATH |-> path]

(* C22 as stated: handling pebble-ready, or config-changed with a valid log
   level and a reachable Pebble, applies a layer whose environment has
   RS_LOG_LEVEL = the upper-cased log level, RS_PORT = 8383, RS_DATA_PATH =
   /data, RS_LICENSE_PATH = license-path and RS_API_BASE_PATH = the configured
   api-base-path (by default /<model>-<app>), replans, and leaves the unit
   Active. *)
C22_LayerWithConfiguredPath ==
    [][LayerEvent(charm') =>
          /\ charm'.layers = charm.layers + 1
          /\ charm'.replans = charm.replans + 1
          /\ charm'.plan = <<Environment(charm', ConfiguredPath(charm'))>>
          /\ charm'.status.name = "active"]_vars

(* C22 amended: the same, with RS_API_BASE_PATH = the configured api-base-path
   (by default /<model>-<app>) normalised: a leading "/" is added when it is
   missing and one trailing "/" is removed. *)
C22_LayerWithNormalisedPath ==
    [][LayerEvent(charm') =>
          /\ charm'.layers = charm.layers + 1
          /\ charm'.replans = charm.replans + 1
          /\ charm'.plan = <<Environment(charm', NormalisedPath(ConfiguredPath(charm')))>>
          /\ charm'.status.name = "active"]_vars

\* config-changed to a valid level and a path without leading "/" was handled
\* with a reachable Pebble, after a layer had been applied before
C22_Witness ==
    /\ charm.on
    /\ charm.event = "config-changed"
    /\ charm.can_connect
    /\ charm.config.log_level = "ERROR"
    /\ charm.config.api_base_path = <<"newbase", "/">>
    /\ charm.plan[1].RS_API_BASE_PATH = <<"/", "newbase">>
    /\ charm.layers = 2

(* C23: handling config-changed with a log level outside {info, debug,
   warning, error, critical}, compared in lower case, sets the unit Blocked
   with a message that contains the rejected level in the lower case it was
   compared in, and changes nothing else: no layer is added, no replan happens,
   nothing is deferred and the catalogue item is not republished. *)
C23_InvalidLevelBlocks ==
    [][(charm'.event = "config-changed" /\ ~ValidLevel(charm')) =>
          /\ charm'.status.name = "blocked"
          /\ Contains(charm'.status.message, <<level_lower(charm'.config.log_level)>>)
          /\ charm'.layers = charm.layers
          /\ charm'.replans = charm.replans
          /\ charm'.plan = charm.plan
          /\ charm'.deferred = charm.deferred
          /\ charm'.published = charm.published
          /\ charm'.item = charm.item
          /\ charm'.ingress_url = charm.ingress_url]_vars

\* the level FooBar was rejected on a unit that had a layer and an ingress
C23_Witness ==
    /\ charm.on
    /\ charm.event = "config-changed"
    /\ charm.config.log_level = "FooBar"
    /\ charm.status = BlockedStatus(<<"invalid log level: '", "foobar", "'">>)
    /\ charm.layers = 1
    /\ charm.published = 1

(* C24: handling config-changed with a valid log level while the Pebble API
   is unreachable sets the unit to Maintenance and defers the event; that
   handling does not set Active, applies no layer and does not republish the
   catalogue item. *)
C24_UnreachablePebbleDefers ==
    [][(charm'.event = "config-changed" /\ ValidLevel(charm') /\ ~charm'.can_connect) =>
          /\ charm'.status.name = "maintenance"
          /\ charm'.deferred = charm.deferred + 1
          /\ charm'.layers = charm.layers
          /\ charm'.published = charm.published
          /\ charm'.item = charm.item]_vars

\* an Active unit handled config-changed with an unreachable Pebble
C24_Witness ==
    /\ charm.on
    /\ charm.event = "config-changed"
    /\ ~charm.can_connect
    /\ charm.config.log_level = "Debug"
    /\ charm.deferred = 1
    /\ charm.layers = 1
    /\ charm.status.name = "maintenance"

(* C25: when ingress becomes ready with URL u, the charm stores u as
   ingress_url, publishes a catalogue item named ReductStore whose url is u's
   scheme and host followed by the api base path and /ui/dashboard, and sets
   the unit Active. *)
C25_IngressReadyPublishes ==
    [][charm'.event = "ingress-ready" =>
          /\ charm'.ingress_url = charm'.url
          /\ charm'.published = charm.published + 1
          /\ charm'.item.name = "ReductStore"
          /\ charm'.item.url = <<charm'.url[1], "://", charm'.url[3]>>
                               \o NormalisedPath(ConfiguredPath(charm'))
                               \o <<"/", "ui", "/", "dashboard">>
          /\ charm'.status.name = "active"]_vars

\* ingress became ready with a URL that has a path, a query and a fragment
C25_Witness ==
    /\ charm.on
    /\ charm.event = "ingress-ready"
    /\ charm.url = <<"https", "://", "edge:8443", "/", "old", "?", "x=1", "#", "top">>
    /\ charm.config.api_base_path = <<"/", "newbase">>
    /\ charm.item.url = <<"https", "://", "edge:8443", "/", "newbase", "/", "ui", "/", "dashboard">>

(* C26: when ingress is revoked after having been ready, the charm clears the
   stored ingress_url to the empty string, publishes a catalogue item whose
   url is empty and that lists no API endpoints, and sets the unit to
   Maintenance. *)
C26_IngressRevokedClears ==
    [][(charm'.event = "ingress-revoked" /\ charm.was_ready) =>
          /\ charm'.ingress_url = << >>
          /\ charm'.published = charm.published + 1
          /\ charm'.item.url = << >>
          /\ charm'.item.api_endpoints = {}
          /\ charm'.status.name = "maintenance"]_vars

\* ingress was revoked right after it had been ready and published
C26_Witness ==
    /\ charm.on
    /\ charm.event = "ingress-revoked"
    /\ charm.was_ready
    /\ charm.published = 2
    /\ charm.item = [name |-> "ReductStore", url |-> << >>, api_endpoints |-> {}]

----------------------------------------------------------------------------
(* C27: alloc_us for one entry leaves the last unit of every other entry
   unchanged; so, whatever calls on the other entry come in between, two calls
   with the same event time on two different entries both return
   floor(ts_ns/1000) when that is greater than the last unit of their own
   entry: there is no cross-entry nudge. *)
C27_PerEntryState ==
    [][/\ \A e \in AllocEntries :
            (Len(allocs') = Len(allocs) + 1 /\ allocs'[Len(allocs')].entry # e)
                => Get(last_us', e, -1) = Get(last_us, e, -1)
       /\ (\A i, j \in 1..Len(allocs) :
              LET floor == allocs[i].ts_ns \div NsPerUs
              IN  (/\ allocs[i].entry # allocs[j].entry
                   /\ allocs[i].ts_ns = allocs[j].ts_ns
                   /\ floor > PrevRet(i, allocs[i].entry)
                   /\ floor > PrevRet(j, allocs[j].entry))
                      => (allocs[i].ret = floor /\ allocs[j].ret = floor))']_vars

\* the same event time was allocated under both entries, one call right after
\* the other, and both calls returned its floor
C27_Witness ==
    \E i \in 1..(Len(allocs) - 1) :
        /\ allocs[i].entry # allocs[i + 1].entry
        /\ allocs[i].ts_ns = allocs[i + 1].ts_ns
        /\ allocs[i].ts_ns > 0
        /\ allocs[i].ret = allocs[i].ts_ns \div NsPerUs
        /\ allocs[i + 1].ret = allocs[i].ret
        /\ Get(last_us, allocs[i].entry, -1) >= allocs[i].ret

----------------------------------------------------------------------------
(* C28: the counter of a throttled channel with ratio n is incremented on
   every candidate message and the message is kept iff the incremented counter
   is a multiple of n: of the first N candidates exactly floor(N/n) are kept,
   the n-th, the 2n-th, ...; a channel that is not throttled keeps every
   message. *)
C28_CounterDecimation ==
    (rate.variant # "none" /\ pc \in {"rate_loop", "done"}) =>
        IF rate.should_throttle
        THEN /\ rate.counter = rate.seen
             /\ rate.kept = {k * rate.ratio : k \in 1..(rate.counter \div rate.ratio)}
             /\ Cardinality(rate.kept) = rate.counter \div rate.ratio
        ELSE /\ rate.counter = 0
             /\ rate.kept = 1..rate.seen

\* four candidates of a channel with ratio 2 were counted: the second and the
\* fourth are kept
C28_Witness ==
    /\ rate.variant = "robot"
    /\ rate.should_throttle
    /\ rate.ratio = 2
    /\ rate.counter = 4
    /\ rate.kept = {2, 4}

----------------------------------------------------------------------------
(* C29: in direct replay, whenever an episode is open its window ends
   EPISODE_SECONDS after it starts, and the start time of every non-empty
   episode, closed or open, is the timestamp of the first message the episode
   contains. *)
C29_WindowFromFirstMessage ==
    direct.on =>
        /\ direct.writer_open =>
               direct.window_end_ns = direct.window_start_ns + EPISODE_SECONDS * NsPerSec
        /\ \A k \in 1..Len(direct.episodes) :
               LET ep == direct.episodes[k]
               IN  ep.msgs # << >> => ep.start_ns = SourceTs(ep.msgs[1])
        /\ (direct.writer_open /\ direct.episode_writer # << >>) =>
               direct.window_start_ns = SourceTs(direct.episode_writer[1])

\* every write of the run so far was accepted by the sink
SinkAccepts == \A i \in 1..Len(writes) : writes[i].resp = "ok"

\* the accepted records of entry e at the timestamp write_record derives
\* from start_ns
UploadsAt(e, start_ns) ==
    Len(SelectSeq(writes, LAMBDA w : /\ w.entry = e
                                     /\ w.ts = write_record(e, start_ns).ts
                                     /\ w.resp = "ok"))

\* the run of seed_reductstore.main is over: it returned or an exception left it
DirectOver == direct.on /\ (pc = "done" \/ pc = "raised")

(* C30: in direct replay, when the source is exhausted while an episode is
   open, the final flush closes that episode and uploads it together with its
   pending per-topic CSV and JSON rows; provided the sink accepts every write,
   the run terminates with no episode left open and every episode that was
   opened uploaded exactly once.  Stated on the state in which the run is
   over, where nothing can happen any more. *)
C30_OpenEpisodeFlushed ==
    (DirectOver /\ SinkAccepts) =>
        /\ ~direct.writer_open
        /\ \A k \in 1..Len(direct.episodes) :
               /\ direct.episodes[k].uploaded
               /\ UploadsAt(<<"mcap">>, direct.episodes[k].start_ns) = 1
        /\ \A i \in 1..Len(direct.per_topic_rows) :
               LET t == direct.per_topic_rows[i].topic
               IN  /\ UploadsAt(entry_for_csv(t), direct.window_start_ns) = 1
                   /\ UploadsAt(entry_for_json(t), direct.window_start_ns) = 1

\* the same, for the runs in which every message decodes
C30_FlushedWhenDecoded ==
    (DirectOver /\ SinkAccepts /\ exc # "DecodeError") =>
        /\ ~direct.writer_open
        /\ \A k \in 1..Len(direct.episodes) :
               /\ direct.episodes[k].uploaded
               /\ UploadsAt(<<"mcap">>, direct.episodes[k].start_ns) = 1
        /\ \A i \in 1..Len(direct.per_topic_rows) :
               LET t == direct.per_topic_rows[i].topic
               IN  /\ UploadsAt(entry_for_csv(t), direct.window_start_ns) = 1
                   /\ UploadsAt(entry_for_json(t), direct.window_start_ns) = 1

----------------------------------------------------------------------------
(* Claims about the charm after any sequence of events. *)

(* C38: after any sequence of charm events the most recently published
   catalogue item equals the item computed from the stored ingress_url and
   the current api-base-path configuration; in particular its url is empty
   exactly when the stored ingress_url is empty. *)
C38_ItemFollowsConfig ==
    (charm.on /\ charm.published > 0) =>
        /\ charm.item.name = "ReductStore"
        /\ charm.item.url =
               (IF charm.ingress_url = << >> THEN << >>
                ELSE <<charm.ingress_url[1], "://", charm.ingress_url[3]>>
                     \o NormalisedPath(ConfiguredPath(charm))
                     \o <<"/", "ui", "/", "dashboard">>)
        /\ (charm.item.url = << >>) <=> (charm.ingress_url = << >>)

\* the part of C38 about the empty url alone
C38_UrlEmptyWithIngress ==
    (charm.on /\ charm.published > 0) =>
        ((charm.item.url = << >>) <=> (charm.ingress_url = << >>))

\* the upper-case forms of the valid log levels
ValidUpperLevels == {"INFO", "DEBUG", "WARNING", "ERROR", "CRITICAL"}

(* C39: after any sequence of charm events the unit is Active only if the
   configured log level is valid, and the layer the charm applied carries an
   RS_LOG_LEVEL that is the upper-case form of a valid level. *)
C39_ActiveOnlyWithValidLevel ==
    charm.on =>
        /\ charm.status.name = "active" => ValidLevel(charm)
        /\ charm.plan # << >> => charm.plan[1].RS_LOG_LEVEL \in ValidUpperLevels

----------------------------------------------------------------------------
(* Claims about the sessions of robot.py *)

\* session_start + i * clip_duration + (source_ts - first_source_ts) for the
\* message at position pos = <<session, loop, message>>
RobotRemapped(pos) ==
    robot.session_starts_ns[pos[1] + 1] + pos[2] * robot.clip_dur_ns
    + (robot.msgs[pos[3]].t_ns - robot.first_ts_ns)

\* session_start + SESSION_DURATION of session k (0-based)
RobotSessionEnd(k) ==
    robot.session_starts_ns[k + 1] + robot.cfg.SESSION_DURATION_SECONDS * NsPerSec

(* C31: in robot.py every message of loop i is remapped to session_start +
   i * clip_duration + (source_ts - first_source_ts), and no record (image,
   point cloud or JSON batch) is written in a session with a remapped
   timestamp at or after that session's end. *)
C31_RemappedBeforeSessionEnd ==
    robot.on =>
        /\ \A k \in 1..Len(robot.records) :
               LET r == robot.records[k]
               IN  /\ r.ts_ns = RobotRemapped(r.pos)
                   /\ r.ts_ns < RobotSessionEnd(r.pos[1])
        /\ \A k \in 1..Len(robot.batches) :
               \A n \in 1..Len(robot.batches[k].rows) :
                   LET row == robot.batches[k].rows[n]
                   IN  /\ row.ts_ns = RobotRemapped(row.pos)
                       /\ row.pos[1] = robot.batches[k].s_idx
                       /\ row.ts_ns < RobotSessionEnd(robot.batches[k].s_idx)

\* the same with the session's end included
C31_RemappedUpToSessionEnd ==
    robot.on =>
        /\ \A k \in 1..Len(robot.records) :
               LET r == robot.records[k]
               IN  /\ r.ts_ns = RobotRemapped(r.pos)
                   /\ r.ts_ns <= RobotSessionEnd(r.pos[1])
        /\ \A k \in 1..Len(robot.batches) :
               \A n \in 1..Len(robot.batches[k].rows) :
                   LET row == robot.batches[k].rows[n]
                   IN  /\ row.ts_ns = RobotRemapped(row.pos)
                       /\ row.pos[1] = robot.batches[k].s_idx
                       /\ row.ts_ns <= RobotSessionEnd(robot.batches[k].s_idx)

\* the rows of the batches bs, in the order of the batches
RECURSIVE RowsOf(_)
RowsOf(bs) == IF bs = << >> THEN << >> ELSE Head(bs).rows \o RowsOf(Tail(bs))

\* the rows written to the sink so far, and the rows of the running session
\* that wait in json_batches
WrittenRows == RowsOf(robot.batches)
WaitingRows ==
    IF pc = "robot_msg" \/ pc = "robot_flush" THEN RowsOf(robot.json_batches) ELSE << >>

\* position p = <<session, loop, message>> is processed before position q
PosBefore(p, q) ==
    \/ p[1] < q[1]
    \/ p[1] = q[1] /\ p[2] < q[2]
    \/ p[1] = q[1] /\ p[2] = q[2] /\ p[3] < q[3]

(* C36: in robot.py every row accepted for JSON output is written to the sink
   in exactly one batch of its entry, in arrival order: a batch is written and
   emptied as soon as it holds JSON_BATCH_SIZE rows, every non-empty batch is
   written at the end of the session, and no row is lost, duplicated or
   carried over into the next session.  Stated for the runs that no failed
   write has ended. *)
C36_RowsBatchedOnce ==
    (robot.on /\ pc # "raised") =>
        LET every == WrittenRows \o WaitingRows
        IN  /\ Len(every) = robot.total_json_rows
            /\ \A i, j \in 1..Len(every) : i # j => every[i].pos # every[j].pos
            /\ (pc = "robot_session" \/ pc = "done") =>
                   Len(WrittenRows) = robot.total_json_rows
            /\ \A k \in 1..Len(robot.batches) :
                   LET b == robot.batches[k]
                   IN  /\ b.rows # << >>
                       /\ Len(b.rows) <= robot.cfg.JSON_BATCH_SIZE
                       /\ \A n \in 1..Len(b.rows) :
                              /\ get_json_entry_name(b.rows[n].topic) = b.entry
                              /\ b.rows[n].pos[1] = b.s_idx
            /\ \A k \in 1..Len(robot.json_batches) :
                   pc = "robot_msg" =>
                       Len(robot.json_batches[k].rows) < robot.cfg.JSON_BATCH_SIZE
            /\ \A e \in {robot.batches[k].entry : k \in 1..Len(robot.batches)} :
                   LET rows == RowsOf(SelectSeq(robot.batches, LAMBDA b : b.entry = e))
                   IN  \A i, j \in 1..Len(rows) :
                           i < j => PosBefore(rows[i].pos, rows[j].pos)

\* a finished run of a clip longer than CLIP_SECONDS: the second loop of a
\* session was left by break, a full batch was written in the loop and a batch
\* of one row at the end of the session
C36_Witness ==
    /\ robot.on
    /\ pc = "done"
    /\ robot.clip_dur_ns > robot.cfg.CLIP_SECONDS * NsPerSec
    /\ \E k \in 1..Len(robot.batches) :
           Len(robot.batches[k].rows) = robot.cfg.JSON_BATCH_SIZE
    /\ \E k \in 1..Len(robot.batches) : Len(robot.batches[k].rows) = 1
    /\ robot.total_json_rows = 6

----------------------------------------------------------------------------
(* C40: for every non-empty clip the reference duration used to compute the
   observed rates is strictly positive, so the computation of the throttle
   ratios ends without a division error, also for a clip of one message, a
   clip whose messages share one timestamp and a clip that starts at 0.
   Stated on the states after the clip was read. *)
C40_ReferenceDurationPositive ==
    /\ (mcap.on /\ pc # "mcap_read" /\ mcap.msgs # << >>) =>
           /\ clip_dur_ns(mcap.cfg, mcap.first_ts_ns, mcap.last_ts_ns) > 0
           /\ exc # "ZeroDivisionError"
    /\ (robot.on /\ pc # "robot_read" /\ robot.msgs # << >>) =>
           clip_dur_ns(robot.cfg, robot.first_ts_ns, robot.last_ts_ns) > 0

\* the same for the clips whose first and last timestamps differ
C40_PositiveWhenClipSpansTime ==
    /\ (mcap.on /\ pc # "mcap_read" /\ mcap.first_ts_ns # mcap.last_ts_ns) =>
           /\ clip_dur_ns(mcap.cfg, mcap.first_ts_ns, mcap.last_ts_ns) > 0
           /\ exc # "ZeroDivisionError"
    /\ (robot.on /\ pc # "robot_read" /\ robot.first_ts_ns # robot.last_ts_ns) =>
           clip_dur_ns(robot.cfg, robot.first_ts_ns, robot.last_ts_ns) > 0

----------------------------------------------------------------------------
(* C35: in mcap.py the throttle decision for a message of the clip does not
   depend on the session or the episode: every episode of a run holds the
   same messages of the clip (the same clip positions of the same channels),
   each remapped by the start of its episode.  Every episode is compared with
   the first one of the run. *)
C35_SameMessagesEveryEpisode ==
    mcap.on =>
        \A k \in 1..Len(mcap.episodes) :
            LET a == mcap.episodes[k]
                b == mcap.episodes[1]
            IN  /\ Len(a.msgs) = Len(b.msgs)
                /\ \A n \in 1..Len(a.msgs) :
                       /\ a.msgs[n].idx = b.msgs[n].idx
                       /\ a.msgs[n].topic = b.msgs[n].topic
                       /\ a.msgs[n].ts_ns =
                              a.start_ns + (mcap.msgs[a.msgs[n].idx].t_ns - mcap.first_ts_ns)
                       /\ a.msgs[n].ts_ns - a.start_ns = b.msgs[n].ts_ns - b.start_ns

\* a finished run with two episodes in each of two sessions, in which the
\* image message of the clip is decimated away and the IMU message is kept
C35_Witness ==
    /\ mcap.on
    /\ pc = "done"
    /\ Len(mcap.episodes) = 4
    /\ mcap.episodes[2].episode_i = 1
    /\ mcap.episodes[4].s_idx = 1
    /\ Len(mcap.msgs) = 2
    /\ mcap.msgs[1].topic = TopicImage
    /\ Get(mcap.throttle_ratios, TopicImage, 1) = 2
    /\ \A k \in 1..4 :
           /\ Len(mcap.episodes[k].msgs) = 1
           /\ mcap.episodes[k].msgs[1].idx = 2

----------------------------------------------------------------------------
(* C33: the aggregate statistics attached to an episode record of mcap.py
   describe the messages of that episode: total_messages, total_topics and
   total_bytes are the number of messages, the number of distinct channels
   and the summed payload bytes that were serialized into the episode's blob
   after topic filtering and throttling. *)
C33_StatsDescribeEpisode ==
    mcap.on =>
        \A k \in 1..Len(mcap.episodes) :
            LET ep == mcap.episodes[k]
            IN  /\ ep.stats.total_messages = Len(ep.msgs)
                /\ ep.stats.total_topics =
                       Cardinality({ep.msgs[n].topic : n \in 1..Len(ep.msgs)})
                /\ ep.stats.total_bytes = SumBytes(ep.msgs)

\* the statistics describe the clip that was read
C33_StatsDescribeClip ==
    mcap.on =>
        \A k \in 1..Len(mcap.episodes) :
            LET ep == mcap.episodes[k]
            IN  /\ ep.stats.total_messages = Len(mcap.msgs)
                /\ ep.stats.total_topics =
                       Cardinality({mcap.msgs[n].topic : n \in 1..Len(mcap.msgs)})
                /\ ep.stats.total_bytes = SumBytes(mcap.msgs)

----------------------------------------------------------------------------
(* C37: in direct replay the labels of an episode record keep the aggregate
   keys window_s, file_bytes, topics_count, messages and serialization with
   their computed values after the per-topic labels are merged in, and
   topics_count is the number of distinct topics that contributed messages to
   the episode. *)
C37_AggregateLabelsKept ==
    direct.on =>
        \A k \in 1..Len(direct.episodes) :
            LET ep == direct.episodes[k]
                contributed == {direct.source[ep.msgs[n]].topic : n \in 1..Len(ep.msgs)}
            IN  /\ ep.labels[<<"window_s">>] = IntLabel(EPISODE_SECONDS)
                /\ ep.labels[<<"file_bytes">>] = IntLabel(blob_bytes(ep.msgs))
                /\ ep.labels[<<"messages">>] = IntLabel(Len(ep.msgs))
                /\ ep.labels[<<"serialization">>] = StrLabel(<<"cdr">>)
                /\ ep.labels[<<"topics_count">>] = IntLabel(Cardinality(contributed))

\* the same, with topics_count the number of distinct last segments of the
\* names of the topics that contributed
C37_CountOfLastSegments ==
    direct.on =>
        \A k \in 1..Len(direct.episodes) :
            LET ep == direct.episodes[k]
                segments == {LastSegment(direct.source[ep.msgs[n]].topic, "/") :
                                n \in 1..Len(ep.msgs)}
            IN  /\ ep.labels[<<"window_s">>] = IntLabel(EPISODE_SECONDS)
                /\ ep.labels[<<"file_bytes">>] = IntLabel(blob_bytes(ep.msgs))
                /\ ep.labels[<<"messages">>] = IntLabel(Len(ep.msgs))
                /\ ep.labels[<<"serialization">>] = StrLabel(<<"cdr">>)
                /\ ep.labels[<<"topics_count">>] = IntLabel(Cardinality(segments))

----------------------------------------------------------------------------
(***************************************************************************)
(* The seeded random source, the session context and the synthetic labels  *)
(* of mcap.py and robot.py.  Two runs of one seeder over the same clip and *)
(* the same session schedule are composed: labels.runs[1] is run to its    *)
(* end, then labels.runs[2].  A label value is IntLabel(n) or StrLabel(s). *)
(* The generator is a congruential one: what matters of random.Random is   *)
(* that its outputs are a function of the seeded state and of the number   *)
(* of draws made since.                                                    *)
(***************************************************************************)

\* the state random.seed(a) leaves the generator in
random_seed(a) == (a * 97 + 13) % 251

\* the state after one draw
random_next(x) == (x * 33 + 7) % 251

\* random.randint(lo, hi), random.random() < pct / 100 and random.choice(seq),
\* each computed from the state x the draw left
randint(x, lo, hi) == lo + (x % (hi - lo + 1))

random_below(x, pct) == x * 100 < pct * 251

choice(x, seq) == seq[1 + (x % Len(seq))]

SITES == <<"alpha-plant", "beta-yard", "charlie-warehouse">>

SHIFTS == <<"day", "swing", "night">>

\* ZONE_RISK_MAPPING in insertion order, each zone with its risk range
ZONE_RISK_MAPPING ==
    << [zone |-> "safe_zone", lo |-> 0, hi |-> 20],
       [zone |-> "caution_zone", lo |-> 20, hi |-> 60],
       [zone |-> "restricted_zone", lo |-> 60, hi |-> 100] >>

\* the keys session_context writes
ContextKeys == {"robot", "run_id", "state_id", "mission_id", "operator_id", "site", "shift"}

\* the keys of ContextKeys the seeded generator draws
SeededContextKeys == {"state_id", "mission_id", "operator_id", "site", "shift"}

\* session_context(robot_name) with the uuid4 value run_id and the generator
\* state x: the dict literal draws in the order of its keys
session_context_drawn(robot_name, run_id, x) ==
    LET x1 == random_next(x)
        x2 == random_next(x1)
        x3 == random_next(x2)
        x4 == random_next(x3)
        x5 == random_next(x4)
    IN  [ctx |-> [k \in ContextKeys |->
                    CASE k = "robot"       -> StrLabel(<<robot_name>>)
                      [] k = "run_id"      -> StrLabel(<<run_id>>)
                      [] k = "state_id"    -> [n |-> randint(x1, 1, 5), s |-> <<"state-">>]
                      [] k = "mission_id"  -> [n |-> randint(x2, 1000, 9999), s |-> <<"mission-">>]
                      [] k = "operator_id" -> [n |-> randint(x3, 10, 99), s |-> <<"op-">>]
                      [] k = "site"        -> StrLabel(<<choice(x4, SITES)>>)
                      [] k = "shift"       -> StrLabel(<<choice(x5, SHIFTS)>>)],
         rng |-> x5]

\* the metrics of sprinkle_incidents (robot.py) and sprinkle_incidents_aggregated
\* (mcap.py) in the order they are drawn: pct is the chance in percent of a
\* conditional metric, 100 for one that is always written
SyntheticMetrics(program) ==
    IF program = "robot"
    THEN << [key |-> "battery_pct", pct |-> 100, lo |-> 15, hi |-> 100],
            [key |-> "cpu_temp_c", pct |-> 100, lo |-> 45, hi |-> 85],
            [key |-> "memory_pct", pct |-> 100, lo |-> 20, hi |-> 95],
            [key |-> "net_latency_ms", pct |-> 100, lo |-> 1, hi |-> 150],
            [key |-> "vibration_level", pct |-> 70, lo |-> 0, hi |-> 25],
            [key |-> "safety_score", pct |-> 80, lo |-> 60, hi |-> 100],
            [key |-> "obstacle_dist_cm", pct |-> 60, lo |-> 0, hi |-> 500],
            [key |-> "speed_scaled", pct |-> 90, lo |-> 0, hi |-> 180],
            [key |-> "ai_confidence", pct |-> 75, lo |-> 70, hi |-> 99],
            [key |-> "wifi_dbm", pct |-> 85, lo |-> -90, hi |-> -30],
            [key |-> "zone_risk", pct |-> 40, lo |-> 0, hi |-> 0],
            [key |-> "event_severity", pct |-> 10, lo |-> 1, hi |-> 10],
            [key |-> "vision_confidence", pct |-> 6, lo |-> 50, hi |-> 95],
            [key |-> "lidar_quality", pct |-> 5, lo |-> 70, hi |-> 100] >>
    ELSE << [key |-> "max_battery_pct", pct |-> 100, lo |-> 15, hi |-> 100],
            [key |-> "max_cpu_temp_c", pct |-> 100, lo |-> 45, hi |-> 85],
            [key |-> "max_memory_pct", pct |-> 100, lo |-> 20, hi |-> 95],
            [key |-> "max_net_latency_ms", pct |-> 100, lo |-> 1, hi |-> 150],
            [key |-> "max_vibration_level", pct |-> 70, lo |-> 0, hi |-> 25],
            [key |-> "max_safety_score", pct |-> 80, lo |-> 60, hi |-> 100],
            [key |-> "max_obstacle_dist_cm", pct |-> 60, lo |-> 0, hi |-> 500],
            [key |-> "max_speed_scaled", pct |-> 90, lo |-> 0, hi |-> 180],
            [key |-> "max_ai_confidence", pct |-> 75, lo |-> 70, hi |-> 99],
            [key |-> "max_wifi_dbm", pct |-> 85, lo |-> -90, hi |-> -30],
            [key |-> "max_zone_risk", pct |-> 40, lo |-> 0, hi |-> 0],
            [key |-> "max_event_severity", pct |-> 10, lo |-> 1, hi |-> 10],
            [key |-> "max_vision_confidence", pct |-> 6, lo |-> 50, hi |-> 95] >>

\* the keys the synthetic step of a program may write
SyntheticLabelKeys(program) ==
    {SyntheticMetrics(program)[i].key : i \in 1..Len(SyntheticMetrics(program))} \cup {"zone_type"}

\* a variant whose zone metric writes its zone under the context key site
zone_key_site == "site"

zone_key == "zone_type"

\* the metrics from the i-th on are written into ls, the generator being in
\* state x: a core metric takes one draw, a conditional one a draw for its
\* chance and, when it is taken, one for its value; the zone metric draws the
\* zone and then the risk within the range of that zone
RECURSIVE sprinkle_incidents(_, _, _, _)
sprinkle_incidents(ls, x, metrics, i) ==
    IF i > Len(metrics) THEN [labels |-> ls, rng |-> x]
    ELSE
        LET m == metrics[i]
            x1 == random_next(x)
            x2 == random_next(x1)
            x3 == random_next(x2)
        IN  IF m.pct = 100
            THEN sprinkle_incidents(Put(ls, m.key, IntLabel(randint(x1, m.lo, m.hi))), x1, metrics, i + 1)
            ELSE IF ~random_below(x1, m.pct)
            THEN sprinkle_incidents(ls, x1, metrics, i + 1)
            ELSE IF m.lo = m.hi
            THEN LET z == choice(x2, ZONE_RISK_MAPPING)
                 IN  sprinkle_incidents(
                        Put(Put(ls, m.key, IntLabel(randint(x3, z.lo, z.hi))), zone_key, StrLabel(<<z.zone>>)),
                        x3, metrics, i + 1)
            ELSE sprinkle_incidents(Put(ls, m.key, IntLabel(randint(x2, m.lo, m.hi))), x2, metrics, i + 1)

\* the kinds of record a program writes
RecordKinds(program) ==
    IF program = "robot" THEN {"image", "pointcloud2", "json_batch"} ELSE {"mcap_episode"}

\* base_labels(topic, topic_type, **extra): the extras are merged last
base_labels(extra) ==
    extra @@ [k \in {"topic", "type", "serialization"} |->
                IF k = "serialization" THEN StrLabel(<<"cdr">>) ELSE StrLabel(<<k>>)]

\* the labels of one record before the synthetic step.  An mcap.py episode
\* takes the composition of main, each key holding the value of the group
\* that wrote it last and a context key the value of session_ctx; the robot.py
\* kinds are the dicts of the image and point cloud branches and of
\* write_json_batch
record_labels(kind, session_ctx) ==
    CASE kind = "mcap_episode" ->
            [k \in DOMAIN episode_labels(1) |->
                IF episode_labels(1)[k] = "context" THEN session_ctx[k]
                ELSE StrLabel(<<episode_labels(1)[k]>>)]
      [] kind = "image" -> base_labels(session_ctx)
      [] kind = "pointcloud2" ->
            base_labels([k \in {"kind", "height", "width", "point_step", "row_step", "is_dense"} |->
                            StrLabel(<<k>>)] @@ session_ctx)
      [] kind = "json_batch" ->
            session_ctx @@ [k \in {"rows", "topic", "type"} |-> StrLabel(<<k>>)]

\* the sessions of a run and the records of a session
MaxSessions == 2

MaxSessionRecords == 2

\* the states the generator may be in when the interpreter starts: random is
\* seeded from the entropy of the operating system at import
OsEntropy == {1, 2}

\* the values uuid.uuid4().hex[:8] may take
Uuids == {"0a1b2c3d", "4e5f6071"}

\* a variant of main that leaves the generator as the import seeded it
main_seed_skipped(cfg, x) == x

\* main: random.seed(CFG.RANDOM_SEED) when a seed is configured
main_seed(cfg, x) == IF cfg.RANDOM_SEED.set THEN random_seed(cfg.RANDOM_SEED.value) ELSE x

SeedRunIdle == [rng |-> 0, s_idx |-> 0, r_idx |-> 0, session_ctx |-> << >>, contexts |-> << >>, records |-> << >>]

\* RANDOM_SEED is 42 or None; the schedule is the number of sessions and the
\* kinds of the records each session writes, in order
InitSeeded ==
    /\ pc = "seed_main"
    /\ exc = ""
    /\ last_us = << >>
    /\ allocs = << >>
    /\ writes = << >>
    /\ rate = RateIdle
    /\ direct = DirectIdle
    /\ mcap = McapIdle
    /\ robot = RobotIdle
    /\ filt = FilterIdle
    /\ \E program \in {"mcap", "robot"}, seed \in {[set |-> FALSE, value |-> 0], [set |-> TRUE, value |-> 42]}, sessions \in 1..MaxSessions, n \in 1..MaxSessionRecords :
         \E kinds \in [1..n -> RecordKinds(program)] :
            labels = [on |-> TRUE, program |-> program, cfg |-> [RANDOM_SEED |-> seed],
                      sessions |-> sessions, kinds |-> kinds, cur |-> 1,
                      runs |-> <<SeedRunIdle, SeedRunIdle>>]
    /\ resets = << >>
    /\ charm = CharmIdle

\* the run being executed
CurRun == labels.runs[labels.cur]

\* main up to the session loop: the interpreter starts and the seed is applied
MainSeed ==
    /\ pc = "seed_main"
    /\ \E e \in OsEntropy :
         labels' = [labels EXCEPT !.runs[labels.cur].rng = main_seed(labels.cfg, random_seed(e))]
    /\ pc' = "seed_session"
    /\ UNCHANGED <<exc, last_us, allocs, writes, rate, direct, mcap, robot, filt, resets, charm>>

\* the head of the session loop: the context of the session is generated
SessionStart ==
    /\ pc = "seed_session"
    /\ CurRun.s_idx < labels.sessions
    /\ \E run_id \in Uuids :
         LET drawn == session_context_drawn("robot", run_id, CurRun.rng)
         IN  labels' = [labels EXCEPT !.runs[labels.cur] =
                          [@ EXCEPT !.rng = drawn.rng, !.r_idx = 0, !.session_ctx = drawn.ctx,
                                    !.contexts = Append(@, [s_idx |-> CurRun.s_idx, ctx |-> drawn.ctx])]]
    /\ pc' = "seed_record"
    /\ UNCHANGED <<exc, last_us, allocs, writes, rate, direct, mcap, robot, filt, resets, charm>>

\* one record of the session: its labels are composed, the synthetic labels
\* are added and the record is written
RecordLabels ==
    /\ pc = "seed_record"
    /\ CurRun.r_idx < Len(labels.kinds)
    /\ LET kind == labels.kinds[CurRun.r_idx + 1]
           out == sprinkle_incidents(record_labels(kind, CurRun.session_ctx), CurRun.rng, SyntheticMetrics(labels.program), 1)
       IN  labels' = [labels EXCEPT !.runs[labels.cur] =
                        [@ EXCEPT !.rng = out.rng, !.r_idx = @ + 1,
                                  !.records = Append(@, [s_idx |-> CurRun.s_idx, kind |-> kind, labels |-> out.labels])]]
    /\ UNCHANGED <<pc, exc, last_us, allocs, writes, rate, direct, mcap, robot, filt, resets, charm>>

\* the session wrote its records
SessionEnd ==
    /\ pc = "seed_record"
    /\ CurRun.r_idx = Len(labels.kinds)
    /\ labels' = [labels EXCEPT !.runs[labels.cur].s_idx = @ + 1]
    /\ pc' = "seed_session"
    /\ UNCHANGED <<exc, last_us, allocs, writes, rate, direct, mcap, robot, filt, resets, charm>>

\* the run is over; the second run starts after the first
RunEnd ==
    /\ pc = "seed_session"
    /\ CurRun.s_idx = labels.sessions
    /\ IF labels.cur = 1
       THEN labels' = [labels EXCEPT !.cur = 2] /\ pc' = "seed_main"
       ELSE labels' = labels /\ pc' = "seed_done"
    /\ UNCHANGED <<exc, last_us, allocs, writes, rate, direct, mcap, robot, filt, resets, charm>>

NextSeeded == MainSeed \/ SessionStart \/ RecordLabels \/ SessionEnd \/ RunEnd

SpecSeeded == InitSeeded /\ [][NextSeeded]_vars

\* the runs of the state, each with the sessions it started
SeededRuns == IF labels.on /\ "runs" \in DOMAIN labels THEN {1, 2} ELSE {}

(* C32: in each run the context of a session is generated exactly once, and
   every record written during the session carries, for each of the keys
   robot, run_id, state_id, mission_id, operator_id, site and shift, the
   value generated at the start of the session: neither the statistics, the
   other labels of the record nor the synthetic labels replace it. *)
C32_ContextOncePerSession ==
    \A r \in SeededRuns :
        LET run == labels.runs[r]
        IN  /\ \A j \in 0..(MaxSessions + 1) :
                 Cardinality({i \in 1..Len(run.contexts) : run.contexts[i].s_idx = j})
                    = IF j < Len(run.contexts) THEN 1 ELSE 0
            /\ \A k \in 1..Len(run.records) :
                 LET rec == run.records[k]
                 IN  /\ rec.s_idx + 1 \in 1..Len(run.contexts)
                     /\ \A key \in ContextKeys :
                          /\ key \in DOMAIN rec.labels
                          /\ rec.labels[key] = run.contexts[rec.s_idx + 1].ctx[key]

\* a run of robot.py ended its second session: the json batch of that session
\* drew a zone and carries the context of the second session, which differs
\* from the context of the first
C32_Witness ==
    /\ labels.on /\ "runs" \in DOMAIN labels
    /\ labels.program = "robot"
    /\ Len(labels.runs[1].contexts) = 2
    /\ labels.runs[1].contexts[1].ctx # labels.runs[1].contexts[2].ctx
    /\ \E k \in 1..Len(labels.runs[1].records) :
         /\ labels.runs[1].records[k].s_idx = 1
         /\ labels.runs[1].records[k].kind = "json_batch"
         /\ "zone_type" \in DOMAIN labels.runs[1].records[k].labels

(* C34: when RANDOM_SEED is set, two runs over the same clip and the same
   session schedule draw the same state_id, mission_id, operator_id, site
   and shift for the j-th session and attach the same synthetic label keys,
   with the same values, to the k-th record. *)
C34_SeededRunsAgree ==
    (labels.on /\ "runs" \in DOMAIN labels /\ labels.cfg.RANDOM_SEED.set) =>
        LET a == labels.runs[1]
            b == labels.runs[2]
        IN  /\ \A j \in 1..Len(b.contexts) :
                 \A key \in SeededContextKeys : a.contexts[j].ctx[key] = b.contexts[j].ctx[key]
            /\ \A k \in 1..Len(b.records) :
                 \A key \in SyntheticLabelKeys(labels.program) :
                    /\ key \in DOMAIN a.records[k].labels <=> key \in DOMAIN b.records[k].labels
                    /\ key \in DOMAIN b.records[k].labels =>
                          a.records[k].labels[key] = b.records[k].labels[key]

\* two seeded runs ended whose interpreters started from different entropy and
\* whose sessions drew different run_id values; each wrote four records
C34_Witness ==
    /\ labels.on /\ "runs" \in DOMAIN labels
    /\ pc = "seed_done"
    /\ labels.cfg.RANDOM_SEED.set
    /\ Len(labels.runs[2].records) = 4
    /\ labels.runs[1].contexts[1].ctx["run_id"] # labels.runs[2].contexts[1].ctx["run_id"]
    /\ labels.runs[1].records[4].labels # labels.runs[2].records[4].labels

============================================================================
